---- MODULE Spec2Model ----
(***************************************************************************)
(* Model of the blog-automate article pipeline: the CSV-backed article     *)
(* store (util/csvWriter), the persona / keyword readers and the matcher   *)
(* (util/csvReader), the batch generation loop                             *)
(* (services/article/articlePipeline), the category resolver               *)
(* (util/categoryMapper), the model clients (services/ollama), the         *)
(* publisher and its health check (services/laravel/articlePublisher) and  *)
(* the two batch drivers (scripts/generateArticles, scripts/               *)
(* publishArticles), run once, run again, and with the store shared by     *)
(* processes that do not coordinate.                                       *)
(*                                                                         *)
(* Text is modelled as a sequence of tokens.  The three characters the CSV *)
(* code looks at (comma, double quote, newline) and the decimal digits are *)
(* tokens of their own; every other token stands for a run of ordinary     *)
(* characters (a word that contains no comma, quote, newline or digit).    *)
(***************************************************************************)
EXTENDS Integers, Sequences, FiniteSets, TLC

VARIABLES
    file,       \* content of article.csv (<<>>: absent or zero-byte file)
    last,       \* the last store operation: arguments, file before, outcome
    assigned,   \* identifiers auto-assigned by appendArticleToCSV, in order
    ops,        \* number of store operations performed
    rt,         \* a read / rewrite / read again pass over an article file
    csvIn,      \* the persona and keyword files given to loadCSVData
    personas,   \* result of readPersonaCSV
    keywords,   \* result of readSeoKeywordCSV
    matches,    \* result of matchPersonaWithKeywords
    rpc,        \* position in loadCSVData
    inputs,     \* the tasks given to generateMultipleArticles
    gi,         \* its loop index i
    gpc,        \* its position
    inFlight,   \* the draft / optimized article of the running generateArticle
    generated,  \* its result array (articles) so far
    events,     \* the calls it made and what became of each task, in order
    result,     \* what it returned
    run,        \* a driver run: which driver, configuration, health, store at start
    work,       \* the matches (generate driver) or unpublished articles (publish driver)
    di,         \* the driver's loop index i
    dpc,        \* the driver's position
    stats,      \* the driver's counters
    dlog,       \* what the driver did, in order
    pub,        \* the call of publishArticleToLaravel made for the current item
    savedArticle, \* what appendArticleToCSV returned for the current item
    call,       \* the last call of a client, the resolver or the health check
    calls,      \* number of such calls made
    procs,      \* the store operation each of the concurrent processes is in
    history     \* the file accesses of the concurrent processes, in order

storeVars == <<file, last, assigned, ops>>

readerVars == <<csvIn, personas, keywords, matches, rpc>>

pipelineVars == <<inputs, gi, gpc, inFlight, generated, events, result>>

driverVars == <<run, work, di, dpc, stats, dlog, pub, savedArticle>>

callVars == <<call, calls>>

concurrentVars == <<procs, history>>

vars ==
    <<file, last, assigned, ops, rt, csvIn, personas, keywords, matches, rpc,
      inputs, gi, gpc, inFlight, generated, events, result,
      run, work, di, dpc, stats, dlog, pub, savedArticle, call, calls, procs, history>>

----------------------------------------------------------------------------
(* Bounds *)

\* store operations per behaviour
MaxOps == 3

\* data rows of an article file given to the round trip
MaxRows == 2

\* data rows of a persona file / of a keyword file
MaxPersonas == 2
MaxKeywords == 3

\* tasks given to generateMultipleArticles
MaxTasks == 3

\* matches given to processAllArticles; records in the store the publish
\* driver starts from
MaxMatches == 2
MaxStored == 2

----------------------------------------------------------------------------
(* Text primitives *)

Comma == ","
Quote == "\""
NL == "\n"

Digits == <<"0", "1", "2", "3", "4", "5", "6", "7", "8", "9">>

IsDigit(c) == \E k \in 1..10 : Digits[k] = c

DigitVal(c) == (CHOOSE k \in 1..10 : Digits[k] = c) - 1

\* the only white space of the token alphabet is the newline
IsSpace(c) == c = NL

\* JS undefined, for a text field missing from a parsed row
Undef == <<"undefined">>

\* ids are numbers; JS undefined and NaN are kept apart from every number
IdUndefined == -1
IdNaN == -2

\* JS truthiness of an id: undefined, NaN and 0 are falsy
Truthy(id) == id \notin {IdUndefined, IdNaN, 0}

\* JS strict equality on ids (NaN equals nothing)
IdEq(a, b) == a = b /\ a # IdNaN

RECURSIVE IntToStr(_)
\* String(n) for n >= 0
IntToStr(n) ==
    IF n < 10 THEN <<Digits[n + 1]>>
    ELSE IntToStr(n \div 10) \o <<Digits[(n % 10) + 1]>>

RECURSIVE DigitsValue(_, _, _)
DigitsValue(s, i, acc) ==
    IF i > Len(s) \/ ~IsDigit(s[i]) THEN acc
    ELSE DigitsValue(s, i + 1, acc * 10 + DigitVal(s[i]))

RECURSIVE SkipSpace(_, _)
SkipSpace(s, i) ==
    IF i <= Len(s) /\ IsSpace(s[i]) THEN SkipSpace(s, i + 1) ELSE i

\* parseInt(s, 10): leading white space skipped, then the longest digit
\* prefix; NaN when there is none
parseInt(s) ==
    LET i == SkipSpace(s, 1)
    IN IF i <= Len(s) /\ IsDigit(s[i]) THEN DigitsValue(s, i, 0) ELSE IdNaN

RECURSIVE TrimStart(_)
TrimStart(s) ==
    IF s # <<>> /\ IsSpace(Head(s)) THEN TrimStart(Tail(s)) ELSE s

RECURSIVE TrimEnd(_)
TrimEnd(s) ==
    IF s # <<>> /\ IsSpace(s[Len(s)]) THEN TrimEnd(SubSeq(s, 1, Len(s) - 1)) ELSE s

\* String.prototype.trim
Trim(s) == TrimEnd(TrimStart(s))

RECURSIVE SplitFrom(_, _, _, _, _)
SplitFrom(s, sep, i, cur, acc) ==
    IF i > Len(s) THEN Append(acc, cur)
    ELSE IF s[i] = sep THEN SplitFrom(s, sep, i + 1, <<>>, Append(acc, cur))
    ELSE SplitFrom(s, sep, i + 1, Append(cur, s[i]), acc)

\* String.prototype.split(sep): "" splits into one empty piece
Split(s, sep) == SplitFrom(s, sep, 1, <<>>, <<>>)

RECURSIVE Join(_, _)
\* Array.prototype.join(sep)
Join(parts, sep) ==
    IF parts = <<>> THEN <<>>
    ELSE IF Len(parts) = 1 THEN parts[1]
    ELSE parts[1] \o <<sep>> \o Join(Tail(parts), sep)

Includes(s, c) == \E i \in 1..Len(s) : s[i] = c

\* the quoteCount loop of readArticlesFromCSV
CountQuotes(s) == Cardinality({i \in 1..Len(s) : s[i] = Quote})

RECURSIVE DoubleQuotes(_)
\* field.replace(/"/g, '""')
DoubleQuotes(s) ==
    IF s = <<>> THEN <<>>
    ELSE (IF Head(s) = Quote THEN <<Quote, Quote>> ELSE <<Head(s)>>)
         \o DoubleQuotes(Tail(s))

----------------------------------------------------------------------------
(* util/csvWriter: the article store *)

\* the header line updateArticleInCSV writes
Header ==
    <<"id", Comma, "category_id", Comma, "title", Comma, "body", Comma, "slug",
      Comma, "status", Comma, "meta_title", Comma, "meta_description", Comma,
      "api_posted", NL>>

FieldNames ==
    {"id", "category_id", "title", "body", "slug", "status", "meta_title",
     "meta_description", "api_posted"}

escapeCSVField(field) ==
    IF Includes(field, Comma) \/ Includes(field, NL) \/ Includes(field, Quote)
    THEN <<Quote>> \o DoubleQuotes(field) \o <<Quote>>
    ELSE field

RECURSIVE ParseFields(_, _, _, _, _)
\* the character loop of parseCSVLine
ParseFields(line, i, currentField, insideQuotes, fields) ==
    IF i > Len(line) THEN Append(fields, currentField)
    ELSE IF line[i] = Quote
    THEN IF insideQuotes /\ i + 1 <= Len(line) /\ line[i + 1] = Quote
         THEN ParseFields(line, i + 2, Append(currentField, Quote), insideQuotes, fields)
         ELSE ParseFields(line, i + 1, currentField, ~insideQuotes, fields)
    ELSE IF line[i] = Comma /\ ~insideQuotes
    THEN ParseFields(line, i + 1, <<>>, insideQuotes, Append(fields, currentField))
    ELSE ParseFields(line, i + 1, Append(currentField, line[i]), insideQuotes, fields)

\* fields[k] of a JS array (0-based k), undefined past the end
FieldAt(fields, k) == IF k + 1 <= Len(fields) THEN fields[k + 1] ELSE Undef

parseCSVLine(line) ==
    LET fields == ParseFields(line, 1, <<>>, FALSE, <<>>)
    IN [id |-> IF fields[1] # <<>> THEN parseInt(fields[1]) ELSE IdUndefined,
        category_id |-> FieldAt(fields, 1),
        title |-> FieldAt(fields, 2),
        body |-> FieldAt(fields, 3),
        slug |-> FieldAt(fields, 4),
        status |-> IF FieldAt(fields, 5) \in {Undef, <<>>} THEN <<"draft">>
                   ELSE FieldAt(fields, 5),
        meta_title |-> FieldAt(fields, 6),
        meta_description |-> FieldAt(fields, 7),
        api_posted |-> FieldAt(fields, 8) = <<"1">>]

RECURSIVE JoinRecords(_, _, _, _)
\* the loop of readArticlesFromCSV that glues physical lines into records
\* while the number of quotes seen is odd
JoinRecords(lines, k, currentRecord, records) ==
    IF k > Len(lines)
    THEN IF currentRecord # <<>> THEN Append(records, currentRecord) ELSE records
    ELSE LET glued == (IF currentRecord # <<>> THEN Append(currentRecord, NL)
                       ELSE currentRecord) \o lines[k]
         IN IF CountQuotes(glued) % 2 = 0
            THEN JoinRecords(lines, k + 1, <<>>, Append(records, glued))
            ELSE JoinRecords(lines, k + 1, glued, records)

readArticlesFromCSV(content) ==
    LET lines == Split(Trim(content), NL)
    IN IF Len(lines) <= 1 THEN <<>>
       ELSE LET records == JoinRecords(Tail(lines), 1, <<>>, <<>>)
            IN [k \in 1..Len(records) |-> parseCSVLine(records[k])]

RECURSIVE MaxIdFrom(_, _, _)
\* existingArticles.reduce((max, a) => (a.id && a.id > max ? a.id : max), 0)
MaxIdFrom(articles, k, max) ==
    IF k > Len(articles) THEN max
    ELSE MaxIdFrom(articles, k + 1,
                   IF Truthy(articles[k].id) /\ articles[k].id > max
                   THEN articles[k].id ELSE max)

\* a text value handed to Array.prototype.join: undefined joins as ''
Joined(v) == IF v = Undef THEN <<>> ELSE v

\* the line appendArticleToCSV builds (article.id is set by then)
AppendLine(article) ==
    Join(<<IntToStr(article.id),
           Joined(article.category_id),
           escapeCSVField(article.title),
           escapeCSVField(article.body),
           Joined(article.slug),
           Joined(article.status),
           escapeCSVField(article.meta_title),
           escapeCSVField(article.meta_description),
           IF article.api_posted THEN <<"1">> ELSE <<"0">> >>, Comma)

\* the article appendArticleToCSV returns: the id is assigned when falsy
WithId(content, article) ==
    IF ~Truthy(article.id)
    THEN [article EXCEPT !.id = MaxIdFrom(readArticlesFromCSV(content), 1, 0) + 1]
    ELSE article

\* appendArticleToCSV: the file it leaves (appendFileSync creates a missing
\* file) and the article it returns
appendArticleToCSV(content, article) ==
    LET saved == WithId(content, article)
    IN [file |-> content \o AppendLine(saved) \o <<NL>>, article |-> saved]

\* articles.findIndex((article) => article.id === articleId), 1-based; 0: none
findIndex(articles, articleId) ==
    IF \E k \in 1..Len(articles) : IdEq(articles[k].id, articleId)
    THEN CHOOSE k \in 1..Len(articles) :
            /\ IdEq(articles[k].id, articleId)
            /\ \A j \in 1..(k - 1) : ~IdEq(articles[j].id, articleId)
    ELSE 0

\* { ...article, ...updates }
Merge(article, updates) ==
    [f \in FieldNames |-> IF f \in DOMAIN updates THEN updates[f] ELSE article[f]]

\* escapeCSVField(undefined) throws a TypeError
Throws(article) ==
    \/ article.title = Undef
    \/ article.body = Undef
    \/ article.meta_title = Undef
    \/ article.meta_description = Undef

\* the line updateArticleInCSV builds for one article
UpdateLine(article) ==
    Join(<<IF Truthy(article.id) THEN IntToStr(article.id) ELSE <<>>,
           Joined(article.category_id),
           escapeCSVField(article.title),
           escapeCSVField(article.body),
           Joined(article.slug),
           Joined(article.status),
           escapeCSVField(article.meta_title),
           escapeCSVField(article.meta_description),
           IF article.api_posted THEN <<"1">> ELSE <<"0">> >>, Comma)

\* header + lines.join('\n') + '\n'
WriteAll(articles) ==
    Header \o Join([k \in 1..Len(articles) |-> UpdateLine(articles[k])], NL) \o <<NL>>

\* a variant of updateArticleInCSV without the index === -1 check: the merge
\* lands on articles[-1], which map() skips, and the file is rewritten
updateArticleInCSVUnchecked(content, articleId, updates) ==
    LET articles == readArticlesFromCSV(content)
        index == findIndex(articles, articleId)
        merged == IF index = 0 THEN articles
                  ELSE [articles EXCEPT ![index] = Merge(articles[index], updates)]
    IN IF \E k \in 1..Len(merged) : Throws(merged[k])
       THEN [result |-> "TypeError", file |-> content]
       ELSE [result |-> "ok", file |-> WriteAll(merged)]

\* updateArticleInCSV: the outcome and the file it leaves
updateArticleInCSV(content, articleId, updates) ==
    LET articles == readArticlesFromCSV(content)
        index == findIndex(articles, articleId)
        merged == [articles EXCEPT ![index] = Merge(articles[index], updates)]
    IN IF index = 0 THEN [result |-> "NotFound", file |-> content]
       ELSE IF \E k \in 1..Len(merged) : Throws(merged[k])
       THEN [result |-> "TypeError", file |-> content]
       ELSE [result |-> "ok", file |-> WriteAll(merged)]

----------------------------------------------------------------------------
(* util/csvReader: persona and keyword files, the matcher *)

\* parseCSV: content.trim().split('\n'), every line split at every comma
parseCSV(content) ==
    LET lines == Split(Trim(content), NL)
    IN [k \in 1..Len(lines) |-> Split(lines[k], Comma)]

\* const [_header, ...dataRows] = rows
DataRows(rows) == Tail(rows)

readPersonaCSV(content) ==
    LET dataRows == DataRows(parseCSV(content))
    IN [k \in 1..Len(dataRows) |->
            [Category |-> FieldAt(dataRows[k], 0),
             Persona_Detail |-> FieldAt(dataRows[k], 1),
             Worry_Description |-> FieldAt(dataRows[k], 2),
             Tone_Instruction |-> FieldAt(dataRows[k], 3),
             Context_Scenario |-> FieldAt(dataRows[k], 4)]]

readSeoKeywordCSV(content) ==
    LET dataRows == DataRows(parseCSV(content))
    IN [k \in 1..Len(dataRows) |->
            [ID |-> FieldAt(dataRows[k], 0),
             Category |-> FieldAt(dataRows[k], 1),
             Main_Keyword |-> FieldAt(dataRows[k], 2),
             Sub_Keywords |-> FieldAt(dataRows[k], 3),
             User_Intent |-> FieldAt(dataRows[k], 4),
             Title_Idea |-> FieldAt(dataRows[k], 5)]]

\* a variant of findPersona that takes the last persona of the category
findPersonaLast(ps, category) ==
    IF \E p \in 1..Len(ps) : ps[p].Category = category
    THEN CHOOSE p \in 1..Len(ps) :
            /\ ps[p].Category = category
            /\ \A q \in (p + 1)..Len(ps) : ps[q].Category # category
    ELSE 0

\* personas.find((p) => p.Category === keyword.Category): the index of the
\* first such persona, 0 when find returns undefined
findPersona(ps, category) ==
    IF \E p \in 1..Len(ps) : ps[p].Category = category
    THEN CHOOSE p \in 1..Len(ps) :
            /\ ps[p].Category = category
            /\ \A q \in 1..(p - 1) : ps[q].Category # category
    ELSE 0

RECURSIVE MatchFrom(_, _, _, _)
\* the for loop of matchPersonaWithKeywords
MatchFrom(ps, ks, k, acc) ==
    IF k > Len(ks) THEN acc
    ELSE LET p == findPersona(ps, ks[k].Category)
         IN MatchFrom(ps, ks, k + 1,
                      IF p # 0 THEN Append(acc, [persona |-> ps[p], keyword |-> ks[k]])
                      ELSE acc)

matchPersonaWithKeywords(ps, ks) == MatchFrom(ps, ks, 1, <<>>)

----------------------------------------------------------------------------
(* util/categoryMapper and services/article/articlePipeline *)

\* the labels of PERSONA_TO_CATEGORY_NAME (by the English names its comment
\* gives them) and the catalog ids the mapping resolves them to
PersonaCategoryMapping ==
    [CurrentFacilityCareWorker |-> 3, LatentQualifiedPerson |-> 2,
     IncomeConditionsPriority |-> 1]

\* Object.keys(mapping): the labels in the order of PERSONA_TO_CATEGORY_NAME
PersonaLabels ==
    <<"CurrentFacilityCareWorker", "LatentQualifiedPerson", "IncomeConditionsPriority">>

\* property names every plain object inherits from Object.prototype; mapping
\* is created as {} and the in operator follows the prototype chain
ObjectPrototypeKeys ==
    {"constructor", "toString", "valueOf", "hasOwnProperty", "isPrototypeOf",
     "toLocaleString", "propertyIsEnumerable", "__proto__"}

\* what mapping[key] is for an inherited key: a function or an object, no number
IdInherited == -3

\* a variant of HasProperty that looks at own properties only
HasOwnProperty(personaCategory) == personaCategory \in DOMAIN PersonaCategoryMapping

\* personaCategory in mapping
HasProperty(personaCategory) ==
    \/ personaCategory \in DOMAIN PersonaCategoryMapping
    \/ personaCategory \in ObjectPrototypeKeys

\* getCategoryIdFromPersona: what it returns, or 0 for the error it throws on
\* a label that is not in the mapping
getCategoryIdFromPersona(personaCategory) ==
    IF ~HasProperty(personaCategory) THEN 0
    ELSE IF personaCategory \in DOMAIN PersonaCategoryMapping
         THEN PersonaCategoryMapping[personaCategory]
         ELSE IdInherited

\* the message of the error getCategoryIdFromPersona throws
NotFoundMessage(personaCategory) ==
    <<"Persona category ", personaCategory, " not found. Available categories: ">>
    \o PersonaLabels

\* sleep(2000) between two articles
SleepMs == 2000

\* what the draft model and the SEO model answer for task i (0-based)
DraftOf(i) ==
    [title |-> <<"draftTitle", Digits[i + 1]>>, body |-> <<"draftBody", Digits[i + 1]>>,
     slug |-> <<"draftSlug", Digits[i + 1]>>]

OptimizedOf(i) ==
    [title |-> <<"seoTitle", Digits[i + 1]>>, body |-> <<"seoBody", Digits[i + 1]>>,
     slug |-> <<"seoSlug", Digits[i + 1]>>, meta_title |-> <<"metaTitle", Digits[i + 1]>>,
     meta_description |-> <<"metaDescription", Digits[i + 1]>>]

\* a variant of Stages that asks the SEO model before the draft model
StagesSeoFirst == <<"seo", "draft", "category">>

\* the calls of generateArticle in program order: generateArticleDraft,
\* optimizeArticleForSEO, getCategoryIdFromPersona
Stages == <<"draft", "seo", "category">>

\* the statement control reaches when a call of generateArticle returns
StageAfter(stage) ==
    LET k == CHOOSE j \in 1..Len(Stages) : Stages[j] = stage
    IN IF k < Len(Stages) THEN Stages[k + 1] ELSE "assemble"

\* a variant of AssembleArticle that marks the article as posted
AssembleArticlePosted(categoryId, optimized) ==
    [id |-> IdUndefined, category_id |-> IntToStr(categoryId), title |-> optimized.title,
     body |-> optimized.body, slug |-> optimized.slug, status |-> <<"draft">>,
     meta_title |-> optimized.meta_title,
     meta_description |-> optimized.meta_description, api_posted |-> TRUE]

\* the ArticleData generateArticle assembles (no id)
AssembleArticle(categoryId, optimized) ==
    [id |-> IdUndefined, category_id |-> IntToStr(categoryId), title |-> optimized.title,
     body |-> optimized.body, slug |-> optimized.slug, status |-> <<"draft">>,
     meta_title |-> optimized.meta_title,
     meta_description |-> optimized.meta_description, api_posted |-> FALSE]

\* a variant of AfterFailure that lets the error leave the loop
AfterFailureAbort(i) == [gpc |-> "aborted", gi |-> i]

\* the catch block of generateMultipleArticles: log, go on with the next i
AfterFailure(i) == [gpc |-> "loop", gi |-> i + 1]

\* no call of generateArticle is under way
NothingInFlight == [stage |-> "none", draft |-> <<>>, optimized |-> <<>>]

\* after articles.push: sleep unless this was the last input
AfterSuccess(i, n) ==
    IF i < n - 1 THEN [gpc |-> "sleep", gi |-> i] ELSE [gpc |-> "loop", gi |-> i + 1]

----------------------------------------------------------------------------
(* services/laravel/articlePublisher *)

\* a variant of IsSuccessResponse that takes every 2xx answer with an
\* article for a success
IsSuccessResponseAnyStatus(status, body) == body = "article"

\* response.status === 201 && response.data.article
IsSuccessResponse(status, body) == status = 201 /\ body = "article"

\* the return value of publishArticleToLaravel, or the error it throws;
\* steps lists what the call did
PublishResult(outcome, success, articleId, message, steps) ==
    [outcome |-> outcome, success |-> success, articleId |-> articleId,
     message |-> message, steps |-> steps]

\* the try block and its catch: net is what axios.post did
PostAndInterpret(net, steps) ==
    IF net.kind = "resolved"
    THEN IF net.body = "null"
         THEN \* response.data.article on null: TypeError, not an AxiosError
              PublishResult("return", FALSE, IdUndefined,
                            <<"Unexpected error: ", "TypeError">>, steps)
         ELSE IF IsSuccessResponse(net.status, net.body)
              THEN PublishResult("return", TRUE, net.id,
                                 <<"Article published successfully">>, steps)
              ELSE PublishResult("return", FALSE, IdUndefined,
                                 <<"Failed to publish article">>, steps)
    ELSE IF net.kind = "axiosError"
         THEN PublishResult("return", FALSE, IdUndefined,
                  <<"API Error (">> \o
                  (IF net.status = 0 THEN <<"N/A">> ELSE IntToStr(net.status)) \o
                  <<"): ">> \o
                  (IF net.body = "message" THEN <<"server message">>
                   ELSE <<"axios message">>), steps)
         ELSE PublishResult("return", FALSE, IdUndefined,
                            <<"Unexpected error: ", "error message">>, steps)

\* a variant of publishArticleToLaravel that checks the configuration before
\* it looks at the mock switch
publishArticleToLaravelConfigFirst(cfg, article, net, rnd) ==
    IF ~cfg.store \/ ~cfg.token
    THEN PublishResult("throw", FALSE, IdUndefined,
                       <<"Laravel API is not configured">>, <<"endpoint", "apiToken">>)
    ELSE IF cfg.mock
         THEN PublishResult("return", TRUE, rnd,
                            <<"Mock mode", ": Article published successfully">>,
                            <<"endpoint", "apiToken", "isLaravelMockMode">>)
         ELSE PostAndInterpret(net, <<"endpoint", "apiToken", "isLaravelMockMode", "axios.post">>)

\* publishArticleToLaravel: cfg says whether LARAVEL_MOCK_MODE is 'true' and
\* whether the store endpoint and the token are set, rnd is the value of
\* Math.floor(Math.random() * 10000)
publishArticleToLaravel(cfg, article, net, rnd) ==
    IF cfg.mock
    THEN PublishResult("return", TRUE, rnd,
                       <<"Mock mode", ": Article published successfully">>,
                       <<"isLaravelMockMode">>)
    ELSE IF ~cfg.store
         THEN PublishResult("throw", FALSE, IdUndefined,
                            <<"Laravel API store endpoint is not configured">>,
                            <<"isLaravelMockMode", "endpoint">>)
         ELSE IF ~cfg.token
              THEN PublishResult("throw", FALSE, IdUndefined,
                                 <<"Laravel API token is not configured">>,
                                 <<"isLaravelMockMode", "endpoint", "apiToken">>)
              ELSE PostAndInterpret(net, <<"isLaravelMockMode", "endpoint", "apiToken",
                                          "axios.post">>)

----------------------------------------------------------------------------
(* scripts/publishArticles and scripts/generateArticles: helpers *)

\* a variant of Unpublished that keeps every record
UnpublishedAll(articles) == articles

\* articles.filter((article) => !article.api_posted)
Unpublished(articles) == SelectSeq(articles, LAMBDA a : ~a.api_posted)

\* isNaN(Number(s)) is false: s is empty or made of digits, with white space
\* around it allowed
IsNumericText(s) == \A k \in 1..Len(Trim(s)) : IsDigit(Trim(s)[k])

\* the values of Article.category_id (string | number), and undefined for a
\* field the reader did not find
JsNumber(n) == [type |-> "number", num |-> n, text |-> <<>>]
JsString(s) == [type |-> "string", num |-> 0, text |-> s]
JsUndefined == [type |-> "undefined", num |-> 0, text |-> <<>>]

\* the category_id of a record as readArticlesFromCSV returns it
FromStore(text) == IF text = Undef THEN JsUndefined ELSE JsString(text)

\* a variant of NeedsResolver that resolves every string
NeedsResolverAnyString(categoryId) == categoryId.type = "string"

\* typeof categoryId === 'string' && isNaN(Number(categoryId))
NeedsResolver(categoryId) ==
    categoryId.type = "string" /\ ~IsNumericText(categoryId.text)

\* convertCategoryIdToNumber: whether getCategoryIdFromPersona was called,
\* whether it threw, and the value returned (IdNaN for Number(undefined))
convertCategoryIdToNumber(categoryId) ==
    IF NeedsResolver(categoryId)
    THEN LET id == IF Len(categoryId.text) = 1
                   THEN getCategoryIdFromPersona(categoryId.text[1])
                   ELSE 0
         IN [resolver |-> TRUE, threw |-> id = 0, value |-> id]
    ELSE [resolver |-> FALSE, threw |-> FALSE,
          value |-> IF categoryId.type = "number" THEN categoryId.num
                    ELSE IF categoryId.type = "undefined" THEN IdNaN
                    ELSE DigitsValue(Trim(categoryId.text), 1, 0)]

\* convertCategoryIdToNumber throws for the text read from the store
ConvertThrows(categoryId) == convertCategoryIdToNumber(FromStore(categoryId)).threw

\* prepareArticleForPublish: the article with the numeric category id
prepareArticleForPublish(article) ==
    [article EXCEPT
        !.category_id = convertCategoryIdToNumber(FromStore(article.category_id)).value]

----------------------------------------------------------------------------
(* Inputs of the store operations *)

NoId == IdUndefined

Plain(id) ==
    [id |-> id, category_id |-> <<"3">>, title |-> <<"t">>, body |-> <<"b">>,
     slug |-> <<"s">>, status |-> <<"draft">>, meta_title |-> <<"m">>,
     meta_description |-> <<"d">>, api_posted |-> FALSE]

\* field values with an embedded comma, quote or newline
WithComma == <<"x", Comma, "y">>
WithQuote == <<"x", Quote>>
WithNewline == <<"x", NL, "7">>

\* the articles given to appendArticleToCSV: with and without an id, with
\* special characters in the fields it passes through escapeCSVField and in
\* the two text fields it writes as they are
AppendInputs ==
    {Plain(NoId), Plain(1), Plain(2),
     [Plain(NoId) EXCEPT !.status = <<"published">>, !.api_posted = TRUE],
     [Plain(NoId) EXCEPT !.title = WithComma, !.body = WithNewline,
                         !.meta_title = WithQuote, !.meta_description = WithComma],
     [Plain(NoId) EXCEPT !.title = WithQuote],
     [Plain(NoId) EXCEPT !.title = WithNewline],
     [Plain(NoId) EXCEPT !.slug = WithComma],
     [Plain(NoId) EXCEPT !.slug = WithQuote],
     [Plain(NoId) EXCEPT !.slug = WithNewline],
     [Plain(NoId) EXCEPT !.category_id = WithComma]}

UpdateIds == {1, 2}

UpdateInputs ==
    {[api_posted |-> TRUE], [status |-> <<"published">>], [id |-> 2],
     [title |-> WithComma], [slug |-> WithComma]}

NoArticle == Plain(NoId)
NoUpdates == [api_posted |-> FALSE]

----------------------------------------------------------------------------
(* Inputs of the round trip and of the readers *)

\* a field as a standard CSV writer emits it (RFC 4180 quoting)
StdField(v) ==
    IF Includes(v, Comma) \/ Includes(v, NL) \/ Includes(v, Quote)
    THEN <<Quote>> \o DoubleQuotes(v) \o <<Quote>>
    ELSE v

StdLine(fields) == Join([k \in 1..Len(fields) |-> StdField(fields[k])], Comma)

\* all sequences over S of length at most n
RECURSIVE SeqsUpTo(_, _)
SeqsUpTo(S, n) ==
    IF n = 0 THEN {<<>>}
    ELSE LET shorter == SeqsUpTo(S, n - 1)
         IN shorter \cup {Append(q, x) : q \in {r \in shorter : Len(r) = n - 1}, x \in S}

\* the articles a well-formed file may hold in its k-th row
RowArticles(k) ==
    {Plain(k),
     [Plain(k) EXCEPT !.status = <<"published">>, !.api_posted = TRUE],
     [Plain(k) EXCEPT !.title = WithComma],
     [Plain(k) EXCEPT !.title = WithQuote],
     [Plain(k) EXCEPT !.body = WithNewline],
     [Plain(k) EXCEPT !.meta_title = WithQuote],
     [Plain(k) EXCEPT !.meta_description = WithNewline],
     [Plain(k) EXCEPT !.slug = WithComma],
     [Plain(k) EXCEPT !.slug = WithQuote],
     [Plain(k) EXCEPT !.category_id = WithComma],
     [Plain(k) EXCEPT !.category_id = WithNewline]}

ArticleLists ==
    {as \in SeqsUpTo(UNION {RowArticles(k) : k \in 1..MaxRows}, MaxRows) :
        \A k \in 1..Len(as) : as[k].id = k}

\* the article file a standard CSV writer produces for a list of articles
StdArticleFile(as) ==
    Header \o Join([k \in 1..Len(as) |->
                      StdLine(<<IntToStr(as[k].id), as[k].category_id, as[k].title,
                                as[k].body, as[k].slug, as[k].status,
                                as[k].meta_title, as[k].meta_description,
                                IF as[k].api_posted THEN <<"1">> ELSE <<"0">> >>)],
                   NL) \o <<NL>>

PersonaHeader ==
    <<"Category", Comma, "Persona_Detail", Comma, "Worry_Description", Comma,
      "Tone_Instruction", Comma, "Context_Scenario">>

KeywordHeader ==
    <<"ID", Comma, "Category", Comma, "Main_Keyword", Comma, "Sub_Keywords", Comma,
      "User_Intent", Comma, "Title_Idea">>

PersonaRecords ==
    {[Category |-> c, Persona_Detail |-> d, Worry_Description |-> <<"w">>,
      Tone_Instruction |-> <<"t">>, Context_Scenario |-> <<"s">>] :
        c \in {<<"A">>, <<"B">>}, d \in {<<"p">>, WithComma}}

\* the k-th keyword row has ID k; Sub_Keywords may be a quoted list
KeywordRecords(k) ==
    {[ID |-> <<"k", Digits[k + 1]>>, Category |-> c, Main_Keyword |-> <<"m">>,
      Sub_Keywords |-> s, User_Intent |-> <<"u">>, Title_Idea |-> <<"i">>] :
        c \in {<<"A">>, <<"B">>, <<"C">>}, s \in {<<"x">>}}
    \cup {[ID |-> <<"k", Digits[k + 1]>>, Category |-> <<"A">>, Main_Keyword |-> <<"m">>,
           Sub_Keywords |-> WithComma, User_Intent |-> <<"u">>, Title_Idea |-> <<"i">>]}

PersonaLists == SeqsUpTo(PersonaRecords, MaxPersonas)

KeywordLists ==
    {ks \in SeqsUpTo(UNION {KeywordRecords(k) : k \in 1..MaxKeywords}, MaxKeywords) :
        \A k \in 1..Len(ks) : ks[k].ID = <<"k", Digits[k + 1]>>}

\* a persona file as a standard CSV writer produces it (header, one line per
\* record, no newline after the last line)
StdPersonaFile(ps) ==
    Join(<<PersonaHeader>> \o
         [k \in 1..Len(ps) |->
            StdLine(<<ps[k].Category, ps[k].Persona_Detail, ps[k].Worry_Description,
                      ps[k].Tone_Instruction, ps[k].Context_Scenario>>)], NL)

StdKeywordFile(ks) ==
    Join(<<KeywordHeader>> \o
         [k \in 1..Len(ks) |->
            StdLine(<<ks[k].ID, ks[k].Category, ks[k].Main_Keyword, ks[k].Sub_Keywords,
                      ks[k].User_Intent, ks[k].Title_Idea>>)], NL)

----------------------------------------------------------------------------
(* The store as a state machine *)

StoreIdle ==
    /\ file = <<>>
    /\ last = [op |-> "none", before |-> <<>>, article |-> NoArticle,
               returned |-> NoArticle, id |-> 0, updates |-> NoUpdates,
               result |-> "none"]
    /\ assigned = <<>>
    /\ ops = 0

RoundTripIdle == rt = [phase |-> "idle"]

ReaderIdle ==
    /\ csvIn = [personaFile |-> <<>>, keywordFile |-> <<>>]
    /\ personas = <<>>
    /\ keywords = <<>>
    /\ matches = <<>>
    /\ rpc = "idle"

PipelineIdle ==
    /\ inputs = <<>>
    /\ gi = 0
    /\ gpc = "idle"
    /\ inFlight = NothingInFlight
    /\ generated = <<>>
    /\ events = <<>>
    /\ result = <<>>

\* the counters a driver starts with
NoStats ==
    [successCount |-> 0, failureCount |-> 0, publishedCount |-> 0,
     publishFailureCount |-> 0]

\* no call of publishArticleToLaravel was made for the current item
NoPublish == [called |-> FALSE]

DriverIdle ==
    /\ run = [mode |-> "idle"]
    /\ work = <<>>
    /\ di = 0
    /\ dpc = "idle"
    /\ stats = NoStats
    /\ dlog = <<>>
    /\ pub = NoPublish
    /\ savedArticle = NoArticle

\* no call was made
NoCall == [fn |-> "none"]

CallIdle ==
    /\ call = NoCall
    /\ calls = 0

ConcurrentIdle ==
    /\ procs = <<>>
    /\ history = <<>>

\* article.csv is absent or empty, or holds the header line
Init ==
    /\ file \in {<<>>, Header}
    /\ last = [op |-> "none", before |-> <<>>, article |-> NoArticle,
               returned |-> NoArticle, id |-> 0, updates |-> NoUpdates,
               result |-> "none"]
    /\ assigned = <<>>
    /\ ops = 0
    /\ RoundTripIdle
    /\ CallIdle
    /\ ConcurrentIdle
    /\ ReaderIdle
    /\ DriverIdle
    /\ PipelineIdle

Append_(article) ==
    /\ ops < MaxOps
    /\ LET r == appendArticleToCSV(file, article)
       IN /\ file' = r.file
          /\ last' = [op |-> "append", before |-> file, article |-> article,
                      returned |-> r.article, id |-> 0,
                      updates |-> NoUpdates, result |-> "ok"]
          /\ assigned' = IF ~Truthy(article.id)
                         THEN Append(assigned, r.article.id)
                         ELSE assigned
    /\ ops' = ops + 1
    /\ UNCHANGED <<rt, readerVars, pipelineVars, driverVars,
                 callVars, concurrentVars>>

Update(articleId, updates) ==
    /\ ops < MaxOps
    /\ LET r == updateArticleInCSV(file, articleId, updates)
       IN /\ file' = r.file
          /\ last' = [op |-> "update", before |-> file, article |-> NoArticle,
                      returned |-> NoArticle, id |-> articleId,
                      updates |-> updates, result |-> r.result]
    /\ assigned' = assigned
    /\ ops' = ops + 1
    /\ UNCHANGED <<rt, readerVars, pipelineVars, driverVars,
                 callVars, concurrentVars>>

Next ==
    \/ \E article \in AppendInputs : Append_(article)
    \/ \E articleId \in UpdateIds, updates \in UpdateInputs : Update(articleId, updates)

Spec == Init /\ [][Next]_vars

----------------------------------------------------------------------------
(* Read, rewrite, read again over a well-formed article file *)

InitRoundTrip ==
    /\ StoreIdle
    /\ CallIdle
    /\ ConcurrentIdle
    /\ ReaderIdle
    /\ DriverIdle
    /\ PipelineIdle
    /\ \E as \in ArticleLists :
          rt = [phase |-> "given", source |-> as, content |-> StdArticleFile(as)]

RtRead ==
    /\ rt.phase = "given"
    /\ rt' = [phase |-> "read", source |-> rt.source, content |-> rt.content,
              first |-> readArticlesFromCSV(rt.content)]
    /\ UNCHANGED <<storeVars, readerVars, pipelineVars, driverVars,
                 callVars, concurrentVars>>

\* the rewrite of updateArticleInCSV (lines 155-170) applied to what was read
RtRewrite ==
    /\ rt.phase = "read"
    /\ \A k \in 1..Len(rt.first) : ~Throws(rt.first[k])
    /\ rt' = [phase |-> "rewritten", source |-> rt.source, content |-> rt.content,
              first |-> rt.first, rewritten |-> WriteAll(rt.first)]
    /\ UNCHANGED <<storeVars, readerVars, pipelineVars, driverVars,
                 callVars, concurrentVars>>

RtReadAgain ==
    /\ rt.phase = "rewritten"
    /\ rt' = [phase |-> "done", source |-> rt.source, content |-> rt.content,
              first |-> rt.first, rewritten |-> rt.rewritten,
              second |-> readArticlesFromCSV(rt.rewritten)]
    /\ UNCHANGED <<storeVars, readerVars, pipelineVars, driverVars,
                 callVars, concurrentVars>>

NextRoundTrip == RtRead \/ RtRewrite \/ RtReadAgain

SpecRoundTrip == InitRoundTrip /\ [][NextRoundTrip]_vars

----------------------------------------------------------------------------
(* loadCSVData: read the personas, read the keywords, match them *)

InitReader ==
    /\ StoreIdle
    /\ CallIdle
    /\ ConcurrentIdle
    /\ RoundTripIdle
    /\ PipelineIdle
    /\ DriverIdle
    /\ \E ps \in PersonaLists, ks \in KeywordLists :
          csvIn = [personaFile |-> StdPersonaFile(ps), keywordFile |-> StdKeywordFile(ks),
                   personaSource |-> ps, keywordSource |-> ks]
    /\ personas = <<>>
    /\ keywords = <<>>
    /\ matches = <<>>
    /\ rpc = "start"

ReadPersonas ==
    /\ rpc = "start"
    /\ personas' = readPersonaCSV(csvIn.personaFile)
    /\ rpc' = "personasRead"
    /\ UNCHANGED <<storeVars, rt, pipelineVars, driverVars, csvIn, keywords, matches,
                 callVars, concurrentVars>>

ReadKeywords ==
    /\ rpc = "personasRead"
    /\ keywords' = readSeoKeywordCSV(csvIn.keywordFile)
    /\ rpc' = "keywordsRead"
    /\ UNCHANGED <<storeVars, rt, pipelineVars, driverVars, csvIn, personas, matches,
                 callVars, concurrentVars>>

Match ==
    /\ rpc = "keywordsRead"
    /\ matches' = matchPersonaWithKeywords(personas, keywords)
    /\ rpc' = "matched"
    /\ UNCHANGED <<storeVars, rt, pipelineVars, driverVars, csvIn, personas, keywords,
                 callVars, concurrentVars>>

NextReader == ReadPersonas \/ ReadKeywords \/ Match

SpecReader == InitReader /\ [][NextReader]_vars

----------------------------------------------------------------------------
(* generateMultipleArticles as a state machine *)

TaskLabels == {"CurrentFacilityCareWorker", "UnknownLabel"}

TaskLists == SeqsUpTo(TaskLabels, MaxTasks)

InitPipeline ==
    /\ StoreIdle
    /\ RoundTripIdle
    /\ CallIdle
    /\ ConcurrentIdle
    /\ ReaderIdle
    /\ DriverIdle
    /\ \E labels \in TaskLists :
          inputs = [k \in 1..Len(labels) |->
                      [persona |-> [Category |-> labels[k]],
                       seoKeyword |-> [ID |-> <<"k", Digits[k + 1]>>]]]
    /\ gi = 0
    /\ gpc = "loop"
    /\ inFlight = NothingInFlight
    /\ generated = <<>>
    /\ events = <<>>
    /\ result = <<>>

\* for (let i = 0; i < inputs.length; i++): enter the try block
LoopEnter ==
    /\ gpc = "loop"
    /\ gi < Len(inputs)
    /\ gpc' = Stages[1]
    /\ UNCHANGED <<inputs, gi, inFlight, generated, events, result>>
    /\ UNCHANGED <<storeVars, rt, readerVars, driverVars,
                 callVars, concurrentVars>>

\* the catch block, reached from any stage of generateArticle
Fail(stage) ==
    /\ gpc' = AfterFailure(gi).gpc
    /\ gi' = AfterFailure(gi).gi
    /\ inFlight' = NothingInFlight
    /\ events' = events \o <<<<stage, gi>>, <<"failed", gi>>>>
    /\ UNCHANGED <<inputs, generated, result>>
    /\ UNCHANGED <<storeVars, rt, readerVars, driverVars,
                 callVars, concurrentVars>>

\* generateArticleDraft(input) resolves
DraftOk ==
    /\ gpc = "draft"
    /\ gpc' = StageAfter("draft")
    /\ inFlight' = [inFlight EXCEPT !.stage = "draft", !.draft = DraftOf(gi)]
    /\ events' = Append(events, <<"draft", gi>>)
    /\ UNCHANGED <<inputs, gi, generated, result>>
    /\ UNCHANGED <<storeVars, rt, readerVars, driverVars,
                 callVars, concurrentVars>>

\* generateArticleDraft(input) rejects
DraftFail == gpc = "draft" /\ Fail("draft")

\* optimizeArticleForSEO(draft, input) resolves
SeoOk ==
    /\ gpc = "seo"
    /\ gpc' = StageAfter("seo")
    /\ inFlight' = [inFlight EXCEPT !.stage = "seo", !.optimized = OptimizedOf(gi)]
    /\ events' = Append(events, <<"seo", gi>>)
    /\ UNCHANGED <<inputs, gi, generated, result>>
    /\ UNCHANGED <<storeVars, rt, readerVars, driverVars,
                 callVars, concurrentVars>>

\* optimizeArticleForSEO(draft, input) rejects
SeoFail == gpc = "seo" /\ Fail("seo")

\* getCategoryIdFromPersona returns; the article is assembled and pushed
\* (articles.push)
CategoryOk ==
    /\ gpc = "category"
    /\ getCategoryIdFromPersona(inputs[gi + 1].persona.Category) # 0
    /\ generated' = Append(generated,
            AssembleArticle(getCategoryIdFromPersona(inputs[gi + 1].persona.Category),
                            inFlight.optimized))
    /\ events' = events \o <<<<"category", gi>>, <<"generated", gi>>>>
    /\ gpc' = AfterSuccess(gi, Len(inputs)).gpc
    /\ gi' = AfterSuccess(gi, Len(inputs)).gi
    /\ inFlight' = NothingInFlight
    /\ UNCHANGED <<inputs, result>>
    /\ UNCHANGED <<storeVars, rt, readerVars, driverVars,
                 callVars, concurrentVars>>

\* getCategoryIdFromPersona throws
CategoryFail ==
    /\ gpc = "category"
    /\ getCategoryIdFromPersona(inputs[gi + 1].persona.Category) = 0
    /\ Fail("category")

\* await sleep(2000), inside the try block
Sleep ==
    /\ gpc = "sleep"
    /\ events' = Append(events, <<"sleep", SleepMs>>)
    /\ gpc' = "loop"
    /\ gi' = gi + 1
    /\ UNCHANGED <<inputs, inFlight, generated, result>>
    /\ UNCHANGED <<storeVars, rt, readerVars, driverVars,
                 callVars, concurrentVars>>

\* return articles
Return ==
    /\ gpc = "loop"
    /\ gi >= Len(inputs)
    /\ gpc' = "done"
    /\ result' = generated
    /\ UNCHANGED <<inputs, gi, inFlight, generated, events>>
    /\ UNCHANGED <<storeVars, rt, readerVars, driverVars,
                 callVars, concurrentVars>>

NextPipeline ==
    \/ LoopEnter
    \/ DraftOk
    \/ DraftFail
    \/ SeoOk
    \/ SeoFail
    \/ CategoryOk
    \/ CategoryFail
    \/ Sleep
    \/ Return

SpecPipeline == InitPipeline /\ [][NextPipeline]_vars

----------------------------------------------------------------------------
(* The drivers: processAllArticles (generate, store, publish) and
   loadUnpublishedArticles + publishAllArticles (publish what is stored) *)

\* sleep(1000) between two articles of the publish driver
PublishSleepMs == 1000

\* LARAVEL_MOCK_MODE, LARAVEL_API_STORE_ENDPOINT and LARAVEL_API_TOKEN
DriverConfigs ==
    {[mock |-> TRUE, store |-> FALSE, token |-> FALSE],
     [mock |-> TRUE, store |-> TRUE, token |-> TRUE],
     [mock |-> FALSE, store |-> TRUE, token |-> TRUE],
     [mock |-> FALSE, store |-> FALSE, token |-> TRUE],
     [mock |-> FALSE, store |-> TRUE, token |-> FALSE]}

\* what axios.post can do: resolve with a 2xx response (validateStatus
\* default), reject with an AxiosError that has a response (status) or has
\* none (status 0: timeout, connection refused), or throw something else
Net(kind, status, body, id) == [kind |-> kind, status |-> status, body |-> body, id |-> id]

NoNet == Net("none", 0, "none", IdUndefined)

NetOutcomes ==
    {Net("resolved", 201, "article", 7), Net("resolved", 201, "noArticle", IdUndefined),
     Net("resolved", 201, "null", IdUndefined), Net("resolved", 200, "article", 7),
     Net("axiosError", 500, "message", IdUndefined),
     Net("axiosError", 422, "none", IdUndefined),
     Net("axiosError", 0, "none", IdUndefined),
     Net("otherError", 0, "none", IdUndefined)}

\* values of Math.floor(Math.random() * 10000)
MockIds == {0, 9999}

\* the request is made only outside mock mode and past the configuration checks
NetFor(cfg) == IF cfg.mock \/ ~cfg.store \/ ~cfg.token THEN {NoNet} ELSE NetOutcomes

RndFor(cfg) == IF cfg.mock THEN MockIds ELSE {0}

\* what the SEO model answered for match i: plain text, or a slug with a
\* double quote in it
DriverOutputs(i) == {OptimizedOf(i), [OptimizedOf(i) EXCEPT !.slug = WithQuote]}

\* the articles earlier runs may have left in the store
SeedArticles ==
    {Plain(NoId),
     [Plain(NoId) EXCEPT !.api_posted = TRUE],
     [Plain(NoId) EXCEPT !.category_id = <<"CurrentFacilityCareWorker">>],
     [Plain(NoId) EXCEPT !.category_id = <<"UnknownLabel">>],
     [Plain(NoId) EXCEPT !.slug = WithQuote]}

RECURSIVE BuildStore(_, _, _)
BuildStore(as, k, content) ==
    IF k > Len(as) THEN content
    ELSE BuildStore(as, k + 1, appendArticleToCSV(content, as[k]).file)

\* article.csv as appends without identifier leave it, or absent
StoreSeeds ==
    {<<>>} \cup {BuildStore(as, 1, Header) : as \in SeqsUpTo(SeedArticles, MaxStored)}

Ev(tag, i, id, what) == [tag |-> tag, i |-> i, id |-> id, what |-> what]


\* a variant of CaughtPerItem that lets what the publisher throws leave the loop
CaughtPerItemRethrow(origin) == IF origin = "publish" THEN "aborted" ELSE "afterItem"

\* the try/catch blocks of processArticle, publishAndUpdateArticle and
\* publishSingleArticle: whatever is thrown for an item, the loop goes on
CaughtPerItem(origin) == "afterItem"

\* a variant of PublishEnabled that publishes whatever the health check said
PublishEnabledAlways(isLaravelHealthy) == TRUE

\* if (isLaravelHealthy) in processArticle
PublishEnabled(isLaravelHealthy) == isLaravelHealthy

\* a variant of Updated that takes the publisher's success for the update's
UpdatedIfPublished(res, fsWorks, updResult) == res.outcome = "return" /\ res.success

\* stats.successCount++ / stats.publishedCount++ is reached: the publisher
\* returned success and updateArticleInCSV returned
Updated(res, fsWorks, updResult) ==
    res.outcome = "return" /\ res.success /\ fsWorks /\ updResult = "ok"

\* a variant of Count that leaves the counters alone
CountNothing(st, field) == st

\* stats.<field>++
Count(st, field) == [st EXCEPT ![field] = @ + 1]

\* publishArticleToLaravel(article) and, on success, updateArticleInCSV(path,
\* id, {api_posted: true}); fsWorks says whether fs works under the update
PublishAndUpdate(content, cfg, article, articleId, net, rnd, fsWorks) ==
    LET res == publishArticleToLaravel(cfg, article, net, rnd)
        upd == updateArticleInCSV(content, articleId, [api_posted |-> TRUE])
        updated == Updated(res, fsWorks, upd.result)
    IN [res |-> res,
        update |-> IF res.outcome = "return" /\ res.success
                   THEN (IF fsWorks THEN upd.result ELSE "ioError") ELSE "none",
        file |-> IF updated THEN upd.file ELSE content,
        ok |-> updated,
        next |-> IF res.outcome = "throw" THEN CaughtPerItem("publish")
                 ELSE IF res.success /\ ~updated THEN CaughtPerItem("update")
                 ELSE "afterItem"]

PublishEvents(i, articleId, r) ==
    <<Ev("publish", i, articleId,
         IF r.res.outcome = "throw" THEN "threw"
         ELSE IF r.res.success THEN "success" ELSE "failure")>> \o
    (IF r.update = "none" THEN <<>> ELSE <<Ev("update", i, articleId, r.update)>>)

InitDrivers ==
    /\ last = [op |-> "none", before |-> <<>>, article |-> NoArticle,
               returned |-> NoArticle, id |-> 0, updates |-> NoUpdates,
               result |-> "none"]
    /\ assigned = <<>>
    /\ ops = 0
    /\ RoundTripIdle
    /\ CallIdle
    /\ ConcurrentIdle
    /\ ReaderIdle
    /\ PipelineIdle
    /\ \E cfg \in DriverConfigs :
          \/ \E healthy \in BOOLEAN, n \in 1..MaxMatches :
                /\ cfg.mock => healthy
                /\ file \in {<<>>, Header}
                /\ run = [mode |-> "generate", cfg |-> cfg, healthy |-> healthy,
                          file0 |-> file, earlier |-> <<>>]
                /\ work = [k \in 1..n |->
                             [persona |-> [Category |-> "CurrentFacilityCareWorker"],
                              keyword |-> [ID |-> <<"k", Digits[k + 1]>>]]]
                /\ dpc = "loop"
          \/ /\ file \in StoreSeeds
             /\ run = [mode |-> "publish", cfg |-> cfg, healthy |-> TRUE, file0 |-> file,
                       earlier |-> <<>>]
             /\ work = <<>>
             /\ dpc = "load"
    /\ di = 0
    /\ stats = NoStats
    /\ dlog = <<>>
    /\ pub = NoPublish
    /\ savedArticle = NoArticle

\* processArticle: generateArticle throws
GenFail ==
    /\ run.mode = "generate"
    /\ dpc = "loop"
    /\ di < Len(work)
    /\ stats' = Count(stats, "failureCount")
    /\ dlog' = Append(dlog, Ev("generate", di, 0, "failed"))
    /\ dpc' = CaughtPerItem("generate")
    /\ UNCHANGED <<file, run, work, di, pub, savedArticle>>
    /\ UNCHANGED <<last, assigned, ops, rt, readerVars, pipelineVars,
                 callVars, concurrentVars>>

\* processArticle: generateArticle returns and the article is appended
GenAppend(out, fsWorks) ==
    /\ run.mode = "generate"
    /\ dpc = "loop"
    /\ di < Len(work)
    /\ LET article == AssembleArticle(
                          getCategoryIdFromPersona(work[di + 1].persona.Category), out)
           r == appendArticleToCSV(file, article)
       IN IF fsWorks
          THEN /\ file' = r.file
               /\ savedArticle' = r.article
               /\ stats' = Count(stats, "successCount")
               /\ dlog' = dlog \o <<Ev("generate", di, 0, "ok"),
                                    Ev("append", di, r.article.id, "ok")>>
               /\ dpc' = IF PublishEnabled(run.healthy) THEN "publish" ELSE "afterItem"
          ELSE /\ stats' = Count(stats, "failureCount")
               /\ dlog' = dlog \o <<Ev("generate", di, 0, "ok"),
                                    Ev("append", di, 0, "ioError")>>
               /\ dpc' = CaughtPerItem("append")
               /\ UNCHANGED <<file, savedArticle>>
    /\ UNCHANGED <<run, work, di, pub>>
    /\ UNCHANGED <<last, assigned, ops, rt, readerVars, pipelineVars,
                 callVars, concurrentVars>>

\* publishAndUpdateArticle
GenPublish(net, rnd, fsWorks) ==
    /\ run.mode = "generate"
    /\ dpc = "publish"
    /\ LET r == PublishAndUpdate(file, run.cfg, savedArticle, savedArticle.id, net, rnd,
                                 fsWorks)
       IN /\ file' = r.file
          /\ pub' = [called |-> TRUE, cfg |-> run.cfg, article |-> savedArticle,
                     net |-> net, result |-> r.res]
          /\ stats' = Count(stats, IF r.ok THEN "publishedCount" ELSE "publishFailureCount")
          /\ dlog' = dlog \o PublishEvents(di, savedArticle.id, r)
          /\ dpc' = r.next
    /\ UNCHANGED <<run, work, di, savedArticle>>
    /\ UNCHANGED <<last, assigned, ops, rt, readerVars, pipelineVars,
                 callVars, concurrentVars>>

\* loadUnpublishedArticles
Load ==
    /\ run.mode = "publish"
    /\ dpc = "load"
    /\ work' = Unpublished(readArticlesFromCSV(file))
    /\ dpc' = IF work' = <<>> THEN "done" ELSE "loop"
    /\ UNCHANGED <<file, run, di, stats, dlog, pub, savedArticle>>
    /\ UNCHANGED <<last, assigned, ops, rt, readerVars, pipelineVars,
                 callVars, concurrentVars>>

\* publishSingleArticle
PubPublish(net, rnd, fsWorks) ==
    /\ run.mode = "publish"
    /\ dpc = "loop"
    /\ di < Len(work)
    /\ LET article == work[di + 1]
           r == PublishAndUpdate(file, run.cfg, prepareArticleForPublish(article),
                                 article.id, net, rnd, fsWorks)
       IN IF ConvertThrows(article.category_id)
          THEN /\ stats' = Count(stats, "failureCount")
               /\ dlog' = Append(dlog, Ev("prepare", di, article.id, "threw"))
               /\ dpc' = CaughtPerItem("prepare")
               /\ UNCHANGED <<file, pub>>
          ELSE /\ file' = r.file
               /\ pub' = [called |-> TRUE, cfg |-> run.cfg,
                          article |-> prepareArticleForPublish(article),
                          net |-> net, result |-> r.res]
               /\ stats' = Count(stats, IF r.ok THEN "successCount" ELSE "failureCount")
               /\ dlog' = dlog \o PublishEvents(di, article.id, r)
               /\ dpc' = r.next
    /\ UNCHANGED <<run, work, di, savedArticle>>
    /\ UNCHANGED <<last, assigned, ops, rt, readerVars, pipelineVars,
                 callVars, concurrentVars>>

\* a variant of SleepsAfter that also sleeps after the last item
SleepsAfterEvery(i, n) == TRUE

\* if (i < tasks.length - 1) and if (i < articles.length - 1) around sleep
SleepsAfter(i, n) == i < n - 1

\* the end of the loop body: sleep unless this was the last item, then i++
AfterItem ==
    /\ dpc = "afterItem"
    /\ dlog' = IF SleepsAfter(di, Len(work))
               THEN Append(dlog, Ev("sleep", di,
                                    IF run.mode = "generate" THEN SleepMs
                                    ELSE PublishSleepMs, "slept"))
               ELSE dlog
    /\ di' = di + 1
    /\ dpc' = "loop"
    /\ pub' = NoPublish
    /\ UNCHANGED <<file, run, work, stats, savedArticle>>
    /\ UNCHANGED <<last, assigned, ops, rt, readerVars, pipelineVars,
                 callVars, concurrentVars>>

\* return stats
DriverReturn ==
    /\ dpc = "loop"
    /\ di >= Len(work)
    /\ dpc' = "done"
    /\ UNCHANGED <<file, run, work, di, stats, dlog, pub, savedArticle>>
    /\ UNCHANGED <<last, assigned, ops, rt, readerVars, pipelineVars,
                 callVars, concurrentVars>>

\* the steps of processAllArticles and publishAllArticles; fsWorks says
\* whether fs works under the store operation of the step
DriverLoop ==
    \/ GenFail
    \/ AfterItem
    \/ DriverReturn
    \/ \E fsWorks \in BOOLEAN, out \in DriverOutputs(di) : GenAppend(out, fsWorks)
    \/ \E fsWorks \in BOOLEAN, net \in NetFor(run.cfg), rnd \in RndFor(run.cfg) :
          GenPublish(net, rnd, fsWorks)
    \/ \E fsWorks \in BOOLEAN, net \in NetFor(run.cfg), rnd \in RndFor(run.cfg) :
          PubPublish(net, rnd, fsWorks)

NextDrivers == Load \/ DriverLoop

SpecDrivers == InitDrivers /\ [][NextDrivers]_vars

\* every await of the two batch loops settles
SpecDriversFair == SpecDrivers /\ WF_vars(DriverLoop)

\* runs of the publish driver per behaviour
MaxRuns == 2

\* the publish driver started from the store as it was left
InitRepublish ==
    /\ InitDrivers
    /\ run.mode = "publish"

\* the script is run again: main() of publishArticles starts over on the
\* store the run before left; run.earlier keeps what the earlier runs did
Rerun ==
    /\ run.mode = "publish"
    /\ dpc = "done"
    /\ Len(run.earlier) < MaxRuns - 1
    /\ run' = [run EXCEPT !.file0 = file,
                          !.earlier = Append(@, [file0 |-> run.file0, dlog |-> dlog])]
    /\ work' = <<>>
    /\ di' = 0
    /\ dpc' = "load"
    /\ stats' = NoStats
    /\ dlog' = <<>>
    /\ pub' = NoPublish
    /\ UNCHANGED <<file, savedArticle>>
    /\ UNCHANGED <<last, assigned, ops, rt, readerVars, pipelineVars,
                   callVars, concurrentVars>>

NextRepublish ==
    \/ Load
    \/ Rerun
    \/ AfterItem
    \/ DriverReturn
    \/ \E fsWorks \in BOOLEAN, net \in NetFor(run.cfg), rnd \in RndFor(run.cfg) :
          PubPublish(net, rnd, fsWorks)

SpecRepublish == InitRepublish /\ [][NextRepublish]_vars

----------------------------------------------------------------------------
(* The model clients (services/ollama), the category resolver and the
   health check, called on their own *)

\* calls per behaviour
MaxCalls == 2

\* substring(0, 100) in generateSlug
SlugMaxLen == 100

\* A reply of the model is a sequence of tokens: an opening brace, a closing
\* brace, a member "key": "value" of a JSON object (with the separators
\* around it), or a run of text that holds no brace.  Values are sequences
\* of characters.
LBrace == [kind |-> "{", key |-> "", val |-> <<>>]
RBrace == [kind |-> "}", key |-> "", val |-> <<>>]
Member(key, val) == [kind |-> "member", key |-> key, val |-> val]
Prose(w) == [kind |-> "text", key |-> "", val |-> <<w>>]

\* generatedText.match(...) found nothing
NoMatch == <<>>

\* a variant of MatchObject that ends the span at the first closing brace
MatchObjectLazy(text) ==
    LET opens == {i \in 1..Len(text) : text[i] = LBrace}
        first == CHOOSE i \in opens : \A j \in opens : i <= j
        closes == {i \in 1..Len(text) : text[i] = RBrace /\ i > first}
        end == CHOOSE i \in closes : \A j \in closes : i <= j
    IN IF opens = {} THEN NoMatch
       ELSE IF closes = {} THEN NoMatch
       ELSE SubSeq(text, first, end)

\* generatedText.match(/\{[\s\S]*\}/): from the first opening brace to the
\* last closing brace after it
MatchObject(text) ==
    LET opens == {i \in 1..Len(text) : text[i] = LBrace}
        first == CHOOSE i \in opens : \A j \in opens : i <= j
        closes == {i \in 1..Len(text) : text[i] = RBrace /\ i > first}
        end == CHOOSE i \in closes : \A j \in closes : i >= j
    IN IF opens = {} THEN NoMatch
       ELSE IF closes = {} THEN NoMatch
       ELSE SubSeq(text, first, end)

\* JSON.parse(span) returns: the span is one object, braces around members
IsJsonObject(span) ==
    /\ Len(span) >= 2
    /\ span[1] = LBrace
    /\ span[Len(span)] = RBrace
    /\ \A i \in 2..(Len(span) - 1) : span[i].kind = "member"

\* parsed.<key>: the value of the last member with that key, or undefined
Property(span, key) ==
    LET at == {i \in 1..Len(span) : span[i].kind = "member" /\ span[i].key = key}
    IN IF at = {} THEN Undef
       ELSE span[CHOOSE i \in at : \A j \in at : i >= j].val

\* !value for a string or undefined
Falsy(value) == value = Undef \/ value = <<>>

\* toLowerCase on the characters of the model
ToLower(c) == IF c = "A" THEN "a" ELSE IF c = "B" THEN "b" ELSE c

\* [a-z0-9\u3040-\u309f\u30a0-\u30ff\u4e00-\u9faf]: ASCII lower-case letters
\* and digits, hiragana, katakana, CJK ideographs ("kana" stands for one)
SlugChar(c) == c \in {"a", "b", "7", "kana"}

\* .replace(/[^...]+/g, '-'): every run of other characters becomes one hyphen
RECURSIVE ReplaceRuns(_, _, _)
ReplaceRuns(s, i, acc) ==
    IF i > Len(s) THEN acc
    ELSE IF SlugChar(s[i]) THEN ReplaceRuns(s, i + 1, Append(acc, s[i]))
    ELSE IF i > 1 /\ ~SlugChar(s[i - 1]) THEN ReplaceRuns(s, i + 1, acc)
    ELSE ReplaceRuns(s, i + 1, Append(acc, "-"))

\* .replace(/^-|-$/g, ''): one hyphen off the start and one off the end
TrimHyphens(s) ==
    LET t == IF Len(s) >= 1 /\ s[1] = "-" THEN Tail(s) ELSE s
    IN IF Len(t) >= 1 /\ t[Len(t)] = "-" THEN SubSeq(t, 1, Len(t) - 1) ELSE t

\* generateSlug(title)
generateSlug(title) ==
    LET lower == [i \in 1..Len(title) |-> ToLower(title[i])]
        slug == TrimHyphens(ReplaceRuns(lower, 1, <<>>))
    IN SubSeq(slug, 1, IF Len(slug) < SlugMaxLen THEN Len(slug) ELSE SlugMaxLen)

Thrown(message) == [outcome |-> "throw", message |-> message]

Returned(value) == [outcome |-> "return", value |-> value]

\* what axios.post does for a client: resolve with response.data.response,
\* or reject
ModelReply(text) == [kind |-> "resolved", text |-> text]
ModelDown == [kind |-> "axiosError", text |-> <<>>]

\* generateArticleDraft from the reply on: match, parse, check the required
\* fields, fill in the slug
generateArticleDraft(net) ==
    LET span == MatchObject(net.text)
        title == Property(span, "title")
        body == Property(span, "body")
        slug == Property(span, "slug")
    IN IF net.kind # "resolved" THEN Thrown("AxiosError")
       ELSE IF span = NoMatch THEN Thrown("Failed to parse JSON from model response")
       ELSE IF ~IsJsonObject(span) THEN Thrown("Failed to parse JSON: SyntaxError")
       ELSE IF Falsy(title) \/ Falsy(body)
            THEN Thrown("Generated article is missing required fields (title or body)")
       ELSE Returned([title |-> title, body |-> body,
                      slug |-> IF Falsy(slug) THEN generateSlug(title) ELSE slug])

\* optimizeArticleForSEO from the reply on
optimizeArticleForSEO(draft, net) ==
    LET span == MatchObject(net.text)
        title == Property(span, "title")
        body == Property(span, "body")
        slug == Property(span, "slug")
        meta_title == Property(span, "meta_title")
        meta_description == Property(span, "meta_description")
    IN IF net.kind # "resolved" THEN Thrown("AxiosError")
       ELSE IF span = NoMatch THEN Thrown("Failed to parse JSON from SEO model response")
       ELSE IF ~IsJsonObject(span) THEN Thrown("Failed to parse JSON: SyntaxError")
       ELSE IF Falsy(title) \/ Falsy(body) \/ Falsy(meta_title) \/ Falsy(meta_description)
            THEN Thrown("SEO optimized article is missing required fields (title, body, meta_title, or meta_description)")
       ELSE Returned([title |-> title, body |-> body,
                      slug |-> IF Falsy(slug) THEN draft.slug ELSE slug,
                      meta_title |-> meta_title, meta_description |-> meta_description])

\* a variant of IsHealthyStatus that takes every response axios resolves with
IsHealthyStatusAny(status) == TRUE

\* response.status === 200
IsHealthyStatus(status) == status = 200

\* checkLaravelApiHealth: mock mode, then the endpoint, then the request,
\* whose failure is caught
checkLaravelApiHealth(cfg, net) ==
    IF cfg.mock
    THEN [outcome |-> "return", value |-> TRUE, steps |-> <<"isLaravelMockMode">>]
    ELSE IF ~cfg.healthCheck
    THEN [outcome |-> "return", value |-> FALSE,
          steps |-> <<"isLaravelMockMode", "healthCheck">>]
    ELSE [outcome |-> "return",
          value |-> net.kind = "resolved" /\ IsHealthyStatus(net.status),
          steps |-> <<"isLaravelMockMode", "healthCheck", "axios.get">>]

\* getCategoryIdFromPersona as a call: what it returns or throws
ResolveCategory(personaCategory) ==
    IF getCategoryIdFromPersona(personaCategory) = 0
    THEN Thrown(NotFoundMessage(personaCategory))
    ELSE Returned(getCategoryIdFromPersona(personaCategory))

\* LARAVEL_MOCK_MODE, LARAVEL_API_AUTH_CHECK and LARAVEL_API_TOKEN
HealthConfigs ==
    {[mock |-> m, healthCheck |-> h, token |-> t] :
        m \in BOOLEAN, h \in BOOLEAN, t \in BOOLEAN}

\* what axios.get can do: resolve with a 2xx response, reject with an
\* AxiosError with or without a response, or throw something else
HealthOutcomes ==
    {Net("resolved", 200, "none", IdUndefined), Net("resolved", 204, "none", IdUndefined),
     Net("axiosError", 500, "none", IdUndefined), Net("axiosError", 401, "none", IdUndefined),
     Net("axiosError", 0, "none", IdUndefined), Net("otherError", 0, "none", IdUndefined)}

HealthNetFor(cfg) == IF cfg.mock \/ ~cfg.healthCheck THEN {NoNet} ELSE HealthOutcomes

\* labels given to the resolver: those of the table and others
ResolverInputs ==
    {"CurrentFacilityCareWorker", "LatentQualifiedPerson", "IncomeConditionsPriority",
     "UnknownLabel", "", "currentfacilitycareworker", "toString", "constructor"}

\* titles the draft model may give
Titles ==
    {<<"A", "a">>, <<"a", " ", "!", "7">>, <<"!", "!">>, <<" ", "a", " ">>, <<"-">>,
     <<"kana", "B">>, <<>>}

\* the members of an object: each key present or absent
Members(key, values) == {<<>>} \cup {<<Member(key, v)>> : v \in values}

DraftObjects ==
    {<<LBrace>> \o t \o b \o g \o <<RBrace>> :
        t \in Members("title", Titles),
        b \in Members("body", {<<"B">>}),
        g \in Members("slug", {<<>>, <<"s">>})}

SeoObjects ==
    {<<LBrace>> \o t \o b \o g \o mt \o md \o <<RBrace>> :
        t \in Members("title", {<<"T">>}),
        b \in {<<Member("body", <<"B">>)>>},
        g \in Members("slug", {<<>>, <<"s">>}),
        mt \in Members("meta_title", {<<"M">>}),
        md \in Members("meta_description", {<<"D">>, <<>>})}

\* what the model says before the object and after it
Prefixes == {<<>>, <<Prose("Sure!")>>}

Suffixes ==
    {<<>>, <<Prose("Hope this helps.")>>, <<RBrace>>,
     <<Prose("Example:"), LBrace, Member("title", <<"a">>), RBrace>>}

\* replies without a span from an opening to a closing brace
NoSpanReplies ==
    {<<>>, <<Prose("This is not a valid JSON response")>>,
     <<LBrace, Member("title", <<"a">>)>>, <<RBrace, Prose("x"), LBrace>>}

Replies(objects) ==
    {ModelReply(pre \o obj \o suf) : pre \in Prefixes, obj \in objects, suf \in Suffixes}
    \cup {ModelReply(t) : t \in NoSpanReplies}
    \cup {ModelDown}

\* the draft handed to optimizeArticleForSEO
Drafts == {[title |-> <<"A", "a">>, body |-> <<"B">>, slug |-> <<"d">>]}

InitCalls ==
    /\ StoreIdle
    /\ RoundTripIdle
    /\ ReaderIdle
    /\ PipelineIdle
    /\ DriverIdle
    /\ ConcurrentIdle
    /\ CallIdle

CallHealth(cfg, net) ==
    /\ calls < MaxCalls
    /\ call' = [fn |-> "checkLaravelApiHealth", cfg |-> cfg, net |-> net,
                out |-> checkLaravelApiHealth(cfg, net)]
    /\ calls' = calls + 1
    /\ UNCHANGED <<storeVars, rt, readerVars, pipelineVars, driverVars, concurrentVars>>

CallResolver(label) ==
    /\ calls < MaxCalls
    /\ call' = [fn |-> "getCategoryIdFromPersona", label |-> label,
                out |-> ResolveCategory(label)]
    /\ calls' = calls + 1
    /\ UNCHANGED <<storeVars, rt, readerVars, pipelineVars, driverVars, concurrentVars>>

CallDraft(net) ==
    /\ calls < MaxCalls
    /\ call' = [fn |-> "generateArticleDraft", net |-> net,
                out |-> generateArticleDraft(net)]
    /\ calls' = calls + 1
    /\ UNCHANGED <<storeVars, rt, readerVars, pipelineVars, driverVars, concurrentVars>>

CallSeo(draft, net) ==
    /\ calls < MaxCalls
    /\ call' = [fn |-> "optimizeArticleForSEO", draft |-> draft, net |-> net,
                out |-> optimizeArticleForSEO(draft, net)]
    /\ calls' = calls + 1
    /\ UNCHANGED <<storeVars, rt, readerVars, pipelineVars, driverVars, concurrentVars>>

NextCalls ==
    \/ \E cfg \in HealthConfigs : \E net \in HealthNetFor(cfg) : CallHealth(cfg, net)
    \/ \E label \in ResolverInputs : CallResolver(label)
    \/ \E net \in Replies(DraftObjects) : CallDraft(net)
    \/ \E draft \in Drafts, net \in Replies(SeoObjects) : CallSeo(draft, net)

SpecCalls == InitCalls /\ [][NextCalls]_vars

----------------------------------------------------------------------------
(* Processes that use article.csv at the same time.  Each fs call is a step
   of its own: appendArticleToCSV reads (readFileSync) and then appends
   (appendFileSync); updateArticleInCSV reads and then rewrites
   (writeFileSync).  Nothing in the code locks the file between the two. *)

\* processes, and store operations started per behaviour
MaxProcs == 2
MaxStarted == 3

Procs == 1..MaxProcs

NoOperation == [pc |-> "idle"]

\* the n-th article handed to appendArticleToCSV: no id, a title of its own
ArticleNo(n) == [Plain(NoId) EXCEPT !.title = <<"a", Digits[n + 1]>>]

\* operations started so far
Started == Cardinality({e \in 1..Len(history) : history[e].step \in {"read", "begin"}})

Access(p, step, op, article) == [proc |-> p, step |-> step, op |-> op, article |-> article]

InitConcurrent ==
    /\ file \in {<<>>, Header}
    /\ last = [op |-> "none", before |-> <<>>, article |-> NoArticle,
               returned |-> NoArticle, id |-> 0, updates |-> NoUpdates,
               result |-> "none"]
    /\ assigned = <<>>
    /\ ops = 0
    /\ RoundTripIdle
    /\ ReaderIdle
    /\ PipelineIdle
    /\ DriverIdle
    /\ CallIdle
    /\ procs = [p \in Procs |-> NoOperation]
    /\ history = <<>>

\* appendArticleToCSV up to the line it is about to write: the id comes
\* from the file as it is now
AppendRead(p) ==
    /\ procs[p].pc = "idle"
    /\ Started < MaxStarted
    /\ LET saved == WithId(file, ArticleNo(Started))
       IN /\ procs' = [procs EXCEPT ![p] = [pc |-> "append", article |-> saved]]
          /\ history' = Append(history, Access(p, "read", "append", saved))
    /\ UNCHANGED <<file, last, assigned, ops>>
    /\ UNCHANGED <<rt, readerVars, pipelineVars, driverVars, callVars>>

\* fs.appendFileSync(filePath, csvLine + '\n')
AppendWrite(p) ==
    /\ procs[p].pc = "append"
    /\ file' = file \o AppendLine(procs[p].article) \o <<NL>>
    /\ procs' = [procs EXCEPT ![p] = NoOperation]
    /\ history' = Append(history, Access(p, "write", "append", procs[p].article))
    /\ UNCHANGED <<last, assigned, ops>>
    /\ UNCHANGED <<rt, readerVars, pipelineVars, driverVars, callVars>>

\* updateArticleInCSV(path, id, {api_posted: true}) up to the lines it is
\* about to write, or to the error it throws
UpdateRead(p, articleId) ==
    /\ procs[p].pc = "idle"
    /\ Started < MaxStarted
    /\ LET articles == readArticlesFromCSV(file)
           index == findIndex(articles, articleId)
           merged == [articles EXCEPT
                         ![index] = Merge(articles[index], [api_posted |-> TRUE])]
       IN IF index = 0 \/ \E k \in 1..Len(merged) : Throws(merged[k])
          THEN /\ procs' = procs
               /\ history' = Append(history, Access(p, "begin", "updateThrew", NoArticle))
          ELSE /\ procs' = [procs EXCEPT ![p] = [pc |-> "update", articles |-> merged]]
               /\ history' = Append(history, Access(p, "read", "update", merged[index]))
    /\ UNCHANGED <<file, last, assigned, ops>>
    /\ UNCHANGED <<rt, readerVars, pipelineVars, driverVars, callVars>>

\* fs.writeFileSync(filePath, header + lines.join('\n') + '\n')
UpdateWrite(p) ==
    /\ procs[p].pc = "update"
    /\ file' = WriteAll(procs[p].articles)
    /\ procs' = [procs EXCEPT ![p] = NoOperation]
    /\ history' = Append(history, Access(p, "write", "update", NoArticle))
    /\ UNCHANGED <<last, assigned, ops>>
    /\ UNCHANGED <<rt, readerVars, pipelineVars, driverVars, callVars>>

NextConcurrent ==
    \E p \in Procs :
        \/ AppendRead(p)
        \/ AppendWrite(p)
        \/ \E articleId \in UpdateIds : UpdateRead(p, articleId)
        \/ UpdateWrite(p)

SpecConcurrent == InitConcurrent /\ [][NextConcurrent]_vars

----------------------------------------------------------------------------
(* Claims about the article store *)

\* the records a reader sees in the store
Stored == readArticlesFromCSV(file)

StoredBefore == readArticlesFromCSV(last.before)

\* C1: no two stored records have the same identifier, whatever appends
\* (with or without a caller-supplied identifier) and updates happened.
C1_UniqueIdentifiers ==
    \A i, j \in 1..Len(Stored) : i # j => Stored[i].id # Stored[j].id

\* the identifiers of the records stored before the last operation
IdsBefore == {StoredBefore[k].id : k \in 1..Len(StoredBefore)} \ {IdUndefined, IdNaN}

\* C2: an append without identifier assigns 1 to the first record of a store
\* with no records and max(existing identifiers) + 1 otherwise and returns
\* the record carrying it; the identifiers so assigned are strictly
\* increasing, none is assigned twice.
C2_AutoIncrement ==
    /\ (last.op = "append" /\ ~Truthy(last.article.id)) =>
            /\ last.returned = [last.article EXCEPT !.id = last.returned.id]
            /\ IF StoredBefore = <<>> THEN last.returned.id = 1
               ELSE \A m \in IdsBefore :
                        (\A n \in IdsBefore : n <= m) => last.returned.id = m + 1
    /\ \A i, j \in 1..Len(assigned) : i < j => assigned[i] < assigned[j]

\* C3: an update on an identifier no stored record has fails with the
\* not-found error and leaves the file content exactly as it was.
C3_UpdateMissingLeavesFile ==
    (last.op = "update" /\ \A k \in 1..Len(StoredBefore) : StoredBefore[k].id # last.id)
        => (last.result = "NotFound" /\ file = last.before)

C3_Witness ==
    /\ last.op = "update"
    /\ last.result = "NotFound"
    /\ Len(StoredBefore) >= 1
    /\ file = last.before

\* C4: a successful update changes only the fields named in the partial
\* update, on the targeted record (the first with that identifier); every
\* other field of that record, every field of every other record and the
\* number and order of the records read back as before.
C4_UpdateFrame ==
    (last.op = "update" /\ last.result = "ok") =>
        /\ Len(Stored) = Len(StoredBefore)
        /\ \A k \in 1..Len(StoredBefore) : \A f \in FieldNames :
              \/ Stored[k][f] = StoredBefore[k][f]
              \/ /\ f \in DOMAIN last.updates
                 /\ StoredBefore[k].id = last.id
                 /\ \A j \in 1..(k - 1) : StoredBefore[j].id # last.id

\* C5: a successful update, also one whose partial fields carry an id,
\* leaves the identifier of every stored record as it was.
C5_UpdateKeepsIdentifiers ==
    (last.op = "update" /\ last.result = "ok") =>
        /\ Len(Stored) = Len(StoredBefore)
        /\ \A k \in 1..Len(StoredBefore) : Stored[k].id = StoredBefore[k].id

\* the file starts with the header line
HasHeader(content) ==
    Len(content) >= Len(Header) /\ SubSeq(content, 1, Len(Header)) = Header

\* C7: after an append the store reads one record more than before and the
\* last record equals the appended one in all nine columns, whatever its
\* field values (stated for a file that has its header line).
C7_AppendReadsBack ==
    (last.op = "append" /\ HasHeader(last.before)) =>
        /\ Len(Stored) = Len(StoredBefore) + 1
        /\ Stored[Len(Stored)] = last.returned

----------------------------------------------------------------------------
(* Claims about reading files *)

\* C6: for a well-formed article file, reading all records, writing every
\* record the way the store writes them and reading again yields the same
\* sequence of records, also with embedded commas, quotes and newlines.
C6_RoundTripStable ==
    rt.phase = "done" => rt.second = rt.first

\* C8: reading a persona or keyword file follows standard CSV quoting: a
\* quoted field holding the delimiter comes back as one value without its
\* quotes and the later columns of the row keep their positions.
C8_ReaderUnquotes ==
    /\ rpc \in {"personasRead", "keywordsRead", "matched"} => personas = csvIn.personaSource
    /\ rpc \in {"keywordsRead", "matched"} => keywords = csvIn.keywordSource

\* the keywords (by position) whose Category some persona has
Matchable ==
    {k \in 1..Len(keywords) :
        \E p \in 1..Len(personas) : personas[p].Category = keywords[k].Category}

\* C9: matchPersonaWithKeywords returns, in keyword order, exactly one task
\* for each keyword whose Category some persona has, paired with the first
\* such persona; other keywords give no task, and a persona whose Category
\* no keyword has is in no task.
C9_MatchFirstPersonaInKeywordOrder ==
    rpc = "matched" =>
        /\ Len(matches) = Cardinality(Matchable)
        /\ \A k \in Matchable :
              LET r == Cardinality({j \in Matchable : j <= k})
              IN /\ matches[r].keyword = keywords[k]
                 /\ \E p \in 1..Len(personas) :
                       /\ matches[r].persona = personas[p]
                       /\ personas[p].Category = keywords[k].Category
                       /\ \A q \in 1..(p - 1) :
                             personas[q].Category # keywords[k].Category
        /\ \A r \in 1..Len(matches) :
              matches[r].persona.Category = matches[r].keyword.Category

\* two personas of one Category, a keyword without persona before a keyword
\* with one, and two tasks
C9_Witness ==
    /\ rpc = "matched"
    /\ Len(matches) = 2
    /\ Len(personas) = 2
    /\ personas[1].Category = personas[2].Category
    /\ personas[1] # personas[2]
    /\ Len(keywords) = 3
    /\ 1 \notin Matchable

----------------------------------------------------------------------------
(* Claims about the generation batch *)

\* the tasks (0-based) that ended in the given way
TasksThat(outcome) ==
    {i \in 0..(Len(inputs) - 1) : \E e \in 1..Len(events) : events[e] = <<outcome, i>>}

\* C10: generateMultipleArticles never aborts because a task fails: it
\* processes every task and returns exactly the records of the tasks whose
\* generation succeeded, in task order.
C10_BatchContinuesPastFailures ==
    /\ gpc # "aborted"
    /\ gpc = "done" =>
          /\ \A i \in 0..(Len(inputs) - 1) :
                /\ i \in TasksThat("draft")
                /\ (i \in TasksThat("generated")) # (i \in TasksThat("failed"))
          /\ Len(result) = Cardinality(TasksThat("generated"))
          /\ \A i \in TasksThat("generated") :
                result[Cardinality({j \in TasksThat("generated") : j <= i})] =
                    AssembleArticle(
                        getCategoryIdFromPersona(inputs[i + 1].persona.Category),
                        OptimizedOf(i))

\* a batch of three whose first and last task failed and whose second succeeded
C10_Witness ==
    /\ gpc = "done"
    /\ Len(inputs) = 3
    /\ TasksThat("failed") = {0, 2}
    /\ Len(result) = 1

\* the positions of the event log that hold the given event
At(tag, i) == {e \in 1..Len(events) : events[e] = <<tag, i>>}

\* C11: between the generation calls of every two successive tasks there is
\* one delay of the fixed length, whether the earlier call succeeded or
\* failed, and there is no delay after the call of the last task.
C11_DelayBetweenAllCalls ==
    /\ \A i \in 0..(Len(inputs) - 2) :
          \A a \in At("draft", i), b \in At("draft", i + 1) :
              \E e \in At("sleep", SleepMs) : a < e /\ e < b
    /\ \A a \in At("draft", Len(inputs) - 1) :
          \A e \in At("sleep", SleepMs) : e < a

\* C12: generateArticle calls the draft model, then the SEO model, then the
\* category resolver, each at most once; when a call fails its error is
\* what the caller catches, no later call is made for the task and no
\* article is returned for it.
C12_StagesInOrderFailureStops ==
    \A i \in 0..(Len(inputs) - 1) :
        /\ \A tag \in {"draft", "seo", "category", "failed", "generated"} :
              Cardinality(At(tag, i)) <= 1
        /\ \A e \in At("seo", i) : \E d \in At("draft", i) : d < e
        /\ \A e \in At("category", i) : \E d \in At("seo", i) : d < e
        /\ \A e \in At("generated", i) : \E d \in At("category", i) : d < e
        /\ \A f \in At("failed", i) :
              /\ f > 1
              /\ events[f - 1] \in {<<"draft", i>>, <<"seo", i>>, <<"category", i>>}
              /\ \A tag \in {"draft", "seo", "category", "generated"} :
                    \A e \in At(tag, i) : e < f
              /\ At("generated", i) = {}

\* a finished batch in which the SEO model failed for the first task and the
\* draft model for the second
C12_Witness ==
    /\ gpc = "done"
    /\ Len(events) >= 5
    /\ SubSeq(events, 1, 5) =
          <<<<"draft", 0>>, <<"seo", 0>>, <<"failed", 0>>, <<"draft", 1>>, <<"failed", 1>>>>

\* C13: every article generateArticle returns has status draft, is not
\* posted, has no identifier, has the catalog id of the task persona's
\* Category as category_id, and has title, body, slug, meta_title and
\* meta_description of the SEO model's answer, not the draft's.
C13_AssembledRecord ==
    \A i \in TasksThat("generated") :
        LET r == generated[Cardinality({j \in TasksThat("generated") : j <= i})]
        IN /\ r.status = <<"draft">>
           /\ r.api_posted = FALSE
           /\ r.id = IdUndefined
           /\ inputs[i + 1].persona.Category \in DOMAIN PersonaCategoryMapping
           /\ r.category_id =
                 IntToStr(PersonaCategoryMapping[inputs[i + 1].persona.Category])
           /\ \A f \in {"title", "body", "slug", "meta_title", "meta_description"} :
                 r[f] = OptimizedOf(i)[f]
           /\ \A f \in {"title", "body", "slug"} : r[f] # DraftOf(i)[f]

\* two articles were generated, for the second and the third task
C13_Witness ==
    /\ Len(generated) = 2
    /\ TasksThat("generated") = {1, 2}

----------------------------------------------------------------------------
(* Claims about the drivers and the publisher *)

\* the positions of the driver's log with the given kind of event
Logged(tag) == {e \in 1..Len(dlog) : dlog[e].tag = tag}

\* C14: the generate driver calls publish for an item only when the health
\* check returned true and only after the item's record was appended and got
\* its identifier; a stored record is marked as posted only after publish
\* returned success for it; with publication disabled there is no publish
\* call and no store update.
C14_PublishAfterAppendWhenEnabled ==
    run.mode = "generate" =>
        /\ \A e \in Logged("publish") :
              /\ run.healthy
              /\ Truthy(dlog[e].id)
              /\ \E a \in Logged("append") :
                    /\ a < e
                    /\ dlog[a] = Ev("append", dlog[e].i, dlog[e].id, "ok")
        /\ \A k \in 1..Len(Stored) :
              Stored[k].api_posted =>
                  \E e \in Logged("publish") :
                      /\ dlog[e].what = "success"
                      /\ dlog[e].id = Stored[k].id
                      /\ Stored[k].title = OptimizedOf(dlog[e].i).title
        /\ ~run.healthy => (Logged("publish") = {} /\ Logged("update") = {} /\ ~pub.called)

\* a healthy run that published the record of its second match and marked it
C14_Witness ==
    /\ run.mode = "generate"
    /\ dpc = "done"
    /\ \E e \in Logged("update") : dlog[e] = Ev("update", 1, 2, "ok")
    /\ Len(Stored) = 2
    /\ Stored[2].api_posted
    /\ ~Stored[1].api_posted

\* the records of the store the publish driver started from
StoredAtStart == readArticlesFromCSV(run.file0)

\* the positions of StoredAtStart that are not posted
NotPosted == {j \in 1..Len(StoredAtStart) : ~StoredAtStart[j].api_posted}

\* the position in StoredAtStart of the item with loop index i
ItemAt(i) == CHOOSE j \in NotPosted : Cardinality({q \in NotPosted : q <= j}) = i + 1

\* C15: the publish driver passes to publish only the records that are not
\* posted in the store, in store order, each at most once in a run, also
\* after a failure; posted records are never published.
C15_PublishOnlyUnposted ==
    (run.mode = "publish" /\ dpc # "load") =>
        /\ Len(work) = Cardinality(NotPosted)
        /\ \A i \in 0..(Len(work) - 1) : work[i + 1] = StoredAtStart[ItemAt(i)]
        /\ \A e \in Logged("publish") : dlog[e].i \in 0..(Len(work) - 1)
        /\ \A a, b \in Logged("publish") : a < b => dlog[a].i < dlog[b].i
        /\ pub.called =>
              /\ di < Len(work)
              /\ ~work[di + 1].api_posted
              /\ pub.article = prepareArticleForPublish(work[di + 1])

\* a store with a posted record before one that is not, whose publication failed
C15_Witness ==
    /\ run.mode = "publish"
    /\ dpc = "done"
    /\ Len(StoredAtStart) = 2
    /\ NotPosted = {2}
    /\ \E e \in Logged("publish") : dlog[e].what = "failure"

\* publish returned success for item i and fs did not fail under the update
PublishedOk(i) ==
    /\ \E e \in Logged("publish") : dlog[e].i = i /\ dlog[e].what = "success"
    /\ ~\E e \in Logged("update") : dlog[e].i = i /\ dlog[e].what = "ioError"

\* C16: when the publish driver has terminated, a stored record is posted
\* exactly if it was posted before the run or publish returned success for
\* it in the run; every other field of every record is as before the run.
C16_PostedIffPublished ==
    (run.mode = "publish" /\ dpc = "done") =>
        /\ Len(Stored) = Len(StoredAtStart)
        /\ \A k \in 1..Len(StoredAtStart) :
              /\ Stored[k].api_posted <=>
                    \/ StoredAtStart[k].api_posted
                    \/ \E i \in 0..(Len(work) - 1) : ItemAt(i) = k /\ PublishedOk(i)
              /\ \A f \in FieldNames \ {"api_posted"} : Stored[k][f] = StoredAtStart[k][f]

\* C17: both drivers end by returning their counters, whatever happens to
\* the items: generation failing, fs failing under append or update, publish
\* answering success:false, publish throwing.
C17_DriversTerminate ==
    /\ [](dpc # "aborted")
    /\ (dpc = "loop") ~>
          (/\ dpc = "done"
           /\ di = Len(work)
           /\ stats.successCount + stats.failureCount = Len(work)
           /\ run.mode = "generate" =>
                 stats.publishedCount + stats.publishFailureCount =
                     (IF run.healthy THEN stats.successCount ELSE 0))

\* a finished generate run in which generation failed for the first match
\* and the publisher threw for the second
C17_Witness ==
    /\ run.mode = "generate"
    /\ dpc = "done"
    /\ Len(dlog) >= 1
    /\ dlog[1] = Ev("generate", 0, 0, "failed")
    /\ \E e \in Logged("publish") : dlog[e].i = 1 /\ dlog[e].what = "threw"

\* C18: a configuration error thrown by the publisher (endpoint or token
\* missing outside mock mode) leaves the driver's loop and stops the run; it
\* is not counted as a failed item with the run going on.
C18_ConfigErrorStopsRun ==
    \A e \in Logged("publish") :
        dlog[e].what = "threw" =>
            /\ e = Len(dlog)
            /\ dpc = "aborted"
            /\ stats.failureCount = 0
            /\ stats.publishFailureCount = 0

\* C19: outside mock mode with endpoint and token set publishArticleToLaravel
\* does not throw; it answers success exactly for status 201 with an article
\* in the body, and success:false with a message for every other response
\* and for every transport failure.
C19_PublisherNeverThrowsOnRemoteFailure ==
    (pub.called /\ ~pub.cfg.mock /\ pub.cfg.store /\ pub.cfg.token) =>
        /\ pub.result.outcome = "return"
        /\ pub.result.success <=>
              (pub.net.kind = "resolved" /\ pub.net.status = 201 /\ pub.net.body = "article")
        /\ pub.result.success => pub.result.articleId = pub.net.id
        /\ ~pub.result.success => pub.result.message # <<>>

\* the request timed out or was refused and the publisher answered success:false
C19_Witness ==
    /\ pub.called
    /\ pub.net.kind = "axiosError"
    /\ pub.net.status = 0
    /\ pub.result.outcome = "return"
    /\ ~pub.result.success

\* C20: in mock mode publishArticleToLaravel makes no request and checks no
\* configuration; it answers success with a numeric remote id and a message
\* containing "Mock mode", whatever the article and the configuration.
C20_MockModeAlwaysSucceeds ==
    (pub.called /\ pub.cfg.mock) =>
        /\ pub.result.steps = <<"isLaravelMockMode">>
        /\ pub.result.outcome = "return"
        /\ pub.result.success
        /\ pub.result.articleId \in Nat
        /\ Includes(pub.result.message, "Mock mode")

\* a mock-mode call with neither endpoint nor token set
C20_Witness ==
    /\ pub.called
    /\ pub.cfg.mock
    /\ ~pub.cfg.store
    /\ ~pub.cfg.token
    /\ pub.result.success

\* the events of item i other than the delay after it
ItemEvents(i) == {e \in 1..Len(dlog) : dlog[e].i = i /\ dlog[e].tag # "sleep"}

\* the delays logged after item i
SleepsOf(i) == {e \in Logged("sleep") : dlog[e].i = i}

\* C25: in both drivers there is exactly one delay (2000 ms in
\* processAllArticles, 1000 ms in publishAllArticles) between every two
\* successive items, whatever their outcome, and none after the last: a run
\* over n >= 1 items makes exactly n - 1 delays.
C25_OneDelayBetweenItems ==
    /\ \A e \in Logged("sleep") :
          /\ dlog[e] = Ev("sleep", dlog[e].i,
                          IF run.mode = "generate" THEN 2000 ELSE 1000, "slept")
          /\ dlog[e].i \in 0..(Len(work) - 2)
          /\ \A f \in 1..Len(dlog) :
                (dlog[f].tag # "sleep" /\ dlog[f].i <= dlog[e].i) => f < e
          /\ \A f \in 1..Len(dlog) :
                (dlog[f].tag # "sleep" /\ dlog[f].i > dlog[e].i) => f > e
    /\ \A i \in 0..(Len(work) - 2) :
          (di > i) => Cardinality(SleepsOf(i)) = 1
    /\ \A i \in 0..(Len(work) - 1) :
          (di > i) => ItemEvents(i) # {}
    /\ (dpc = "done" /\ Len(work) >= 1) =>
          Cardinality(Logged("sleep")) = Len(work) - 1

\* a finished publish run over two records: the first was refused by the
\* remote side, the second was published, one delay in between
C25_Witness ==
    /\ run.mode = "publish"
    /\ dpc = "done"
    /\ Len(work) = 2
    /\ \E e \in Logged("publish") : dlog[e].i = 0 /\ dlog[e].what = "failure"
    /\ \E e \in Logged("publish") : dlog[e].i = 1 /\ dlog[e].what = "success"
    /\ Cardinality(Logged("sleep")) = 1

\* what convertCategoryIdToNumber is to do with a value: call the resolver or
\* not, throw or not, and the number to return
ConvertCases ==
    {<<JsNumber(5), FALSE, FALSE, 5>>,
     <<JsNumber(0), FALSE, FALSE, 0>>,
     <<JsString(<<"3">>), FALSE, FALSE, 3>>,
     <<JsString(<<"1", "2">>), FALSE, FALSE, 12>>,
     <<JsString(<<"0">>), FALSE, FALSE, 0>>,
     <<JsString(<<"CurrentFacilityCareWorker">>), TRUE, FALSE, 3>>,
     <<JsString(<<"IncomeConditionsPriority">>), TRUE, FALSE, 1>>,
     <<JsString(<<"UnknownLabel">>), TRUE, TRUE, 0>>,
     <<JsString(<<"3", "x">>), TRUE, TRUE, 0>>,
     <<JsString(WithComma), TRUE, TRUE, 0>>}

\* the items of the publish driver for which the resolver failed
PrepareThrew == {dlog[e].i : e \in Logged("prepare")}

\* the items of the publish driver the store was updated for
UpdatedItems == {dlog[e].i : e \in {u \in Logged("update") : dlog[u].what = "ok"}}

\* C26: convertCategoryIdToNumber calls the resolver exactly for a string
\* that does not parse as a number; a number is returned as it is and a
\* numeric string as its value, without a resolver call; in the publish
\* driver a resolver failure is counted as that article's failure and no
\* publish call is made for it.
C26_ResolverOnlyForLabels ==
    /\ \A c \in ConvertCases :
          LET r == convertCategoryIdToNumber(c[1])
          IN /\ r.resolver = c[2]
             /\ r.threw = c[3]
             /\ ~r.threw => r.value = c[4]
    /\ run.mode = "publish" =>
          /\ \A e \in Logged("prepare") :
                /\ dlog[e].what = "threw"
                /\ work[dlog[e].i + 1].category_id \in
                       {<<"UnknownLabel">>, WithComma, WithQuote, WithNewline}
                /\ ~\E f \in Logged("publish") : dlog[f].i = dlog[e].i
          /\ \A e \in Logged("publish") :
                work[dlog[e].i + 1].category_id \in
                    {<<"3">>, <<"CurrentFacilityCareWorker">>, Undef}
          /\ (pub.called /\ work[di + 1].category_id # Undef) => pub.article.category_id = 3
          /\ dpc = "done" =>
                /\ PrepareThrew \cap UpdatedItems = {}
                /\ stats.failureCount >= Cardinality(PrepareThrew)
                /\ stats.failureCount = Len(work) - Cardinality(UpdatedItems)

\* a finished publish run over a record with an unknown label and a record
\* with a known one: no publish call for the first, one for the second
C26_Witness ==
    /\ run.mode = "publish"
    /\ dpc = "done"
    /\ Len(work) = 2
    /\ work[1].category_id = <<"UnknownLabel">>
    /\ work[2].category_id = <<"CurrentFacilityCareWorker">>
    /\ PrepareThrew = {0}
    /\ \E e \in Logged("publish") : dlog[e].i = 1 /\ dlog[e].what = "success"
    /\ stats.failureCount >= 1

\* C28: when a driver has terminated its counters add up: in
\* processAllArticles successCount + failureCount is the number of tasks and
\* publishedCount + publishFailureCount is successCount with publication
\* enabled and 0 with publication disabled; in publishAllArticles
\* successCount + failureCount is the number of articles given.
C28_CountersAddUp ==
    dpc = "done" =>
        /\ stats.successCount + stats.failureCount = Len(work)
        /\ run.mode = "generate" =>
              /\ run.healthy =>
                    stats.publishedCount + stats.publishFailureCount = stats.successCount
              /\ ~run.healthy =>
                    stats.publishedCount + stats.publishFailureCount = 0
        /\ run.mode = "publish" =>
              (stats.publishedCount = 0 /\ stats.publishFailureCount = 0)

\* a finished generate run over two matches with publication enabled: one
\* generated and stored, one failed, and the publication of the stored one failed
C28_Witness ==
    /\ run.mode = "generate"
    /\ run.healthy
    /\ dpc = "done"
    /\ Len(work) = 2
    /\ stats = [successCount |-> 1, failureCount |-> 1, publishedCount |-> 0,
                publishFailureCount |-> 1]

\* the events the step appends to the log
NewEvents == SubSeq(dlog', Len(dlog) + 1, Len(dlog'))

\* the counter a successful publication goes to, and the one a failed one goes to
OkCounter == IF run.mode = "generate" THEN "publishedCount" ELSE "successCount"

FailCounter == IF run.mode = "generate" THEN "publishFailureCount" ELSE "failureCount"

\* C30: in both drivers a publication is counted as a success only if the
\* store update that sets api_posted completed; when publish returns success
\* and the update throws, the item is counted as a failure and the store is
\* left as it was, the record not posted.
C30_SuccessOnlyAfterUpdate ==
    [][LET published == \E k \in 1..Len(NewEvents) :
                            NewEvents[k].tag = "publish" /\ NewEvents[k].what = "success"
           updated == \E k \in 1..Len(NewEvents) :
                          NewEvents[k].tag = "update" /\ NewEvents[k].what = "ok"
       IN /\ stats'[OkCounter] # stats[OkCounter] => (published /\ updated)
          /\ (published /\ updated) =>
                /\ stats'[OkCounter] = stats[OkCounter] + 1
                /\ stats'[FailCounter] = stats[FailCounter]
          /\ (published /\ ~updated) =>
                /\ stats'[OkCounter] = stats[OkCounter]
                /\ stats'[FailCounter] = stats[FailCounter] + 1
                /\ file' = file
                /\ \E k \in 1..Len(NewEvents) :
                      /\ NewEvents[k].tag = "update"
                      /\ NewEvents[k].what \in {"NotFound", "TypeError", "ioError"}
      ]_vars

\* a finished publish run over one record: publish returned success, fs
\* failed under the update, the item counts as failed and is still not posted
C30_Witness ==
    /\ run.mode = "publish"
    /\ dpc = "done"
    /\ Len(work) = 1
    /\ \E e \in Logged("publish") : dlog[e].what = "success"
    /\ \E e \in Logged("update") : dlog[e].what = "ioError"
    /\ stats.successCount = 0
    /\ stats.failureCount = 1
    /\ Len(Stored) = 1
    /\ ~Stored[1].api_posted

\* C21: checkLaravelApiHealth never throws: in mock mode it returns true
\* without a request; otherwise it returns true exactly if the health
\* endpoint is configured and the GET came back with status 200, and false
\* for a missing endpoint, any other status and any exception.
C21_HealthCheckNeverThrows ==
    call.fn = "checkLaravelApiHealth" =>
        /\ call.out.outcome = "return"
        /\ call.cfg.mock =>
              (call.out.value /\ ~\E k \in 1..Len(call.out.steps) :
                                     call.out.steps[k] = "axios.get")
        /\ ~call.cfg.mock =>
              (call.out.value <=>
                  /\ call.cfg.healthCheck
                  /\ call.net.kind = "resolved"
                  /\ call.net.status = 200)
        /\ (~call.cfg.mock /\ ~call.cfg.healthCheck) =>
              call.out.steps = <<"isLaravelMockMode", "healthCheck">>

\* outside mock mode, with the endpoint set, the request timed out and the
\* health check answered false
C21_Witness ==
    /\ call.fn = "checkLaravelApiHealth"
    /\ ~call.cfg.mock
    /\ call.cfg.healthCheck
    /\ call.net = Net("axiosError", 0, "none", IdUndefined)
    /\ call.out.outcome = "return"
    /\ ~call.out.value

\* C22: getCategoryIdFromPersona returns the catalog id for every label of
\* the static table, and for every string that is not a label of the table
\* it fails with an error that names the valid labels.
C22_ResolverTotalOnLabels ==
    call.fn = "getCategoryIdFromPersona" =>
        IF call.label \in {PersonaLabels[k] : k \in 1..Len(PersonaLabels)}
        THEN /\ call.out.outcome = "return"
             /\ call.out.value = PersonaCategoryMapping[call.label]
        ELSE /\ call.out.outcome = "throw"
             /\ \A k \in 1..Len(PersonaLabels) :
                   Includes(call.out.message, PersonaLabels[k])

\* the first opening brace of a reply and the first closing brace after it
FirstOpen(text) ==
    CHOOSE i \in 1..Len(text) : text[i] = LBrace /\ \A j \in 1..(i - 1) : text[j] # LBrace

FirstBalanced(text) ==
    LET a == FirstOpen(text)
        b == CHOOSE i \in (a + 1)..Len(text) :
                 text[i] = RBrace /\ \A j \in (a + 1)..(i - 1) : text[j] # RBrace
    IN SubSeq(text, a, b)

HasSpan(text) ==
    \E a, b \in 1..Len(text) : a < b /\ text[a] = LBrace /\ text[b] = RBrace

\* the fields a client requires
RequiredFields ==
    IF call.fn = "generateArticleDraft" THEN {"title", "body"}
    ELSE {"title", "body", "meta_title", "meta_description"}

\* the members of an object that has each key at most once
ValueOf(span, key) ==
    IF \E i \in 1..Len(span) : span[i].kind = "member" /\ span[i].key = key
    THEN (CHOOSE m \in {span[i] : i \in 1..Len(span)} :
              m.kind = "member" /\ m.key = key).val
    ELSE <<>>

\* the span is an object that has every required field with a value
WellFormed(span) ==
    /\ \A i \in 2..(Len(span) - 1) : span[i].kind = "member"
    /\ \A f \in RequiredFields : ValueOf(span, f) # <<>>

NoSpanMessage ==
    IF call.fn = "generateArticleDraft" THEN "Failed to parse JSON from model response"
    ELSE "Failed to parse JSON from SEO model response"

ClientCall ==
    /\ call.fn \in {"generateArticleDraft", "optimizeArticleForSEO"}
    /\ call.net.kind = "resolved"

\* C23 as stated: both clients take the first balanced {...} object of the
\* reply: when the reply holds, from its first opening brace on, a
\* well-formed object with the required fields, the client succeeds whatever
\* follows the object, further closing braces included; without a {...}
\* span it fails with the parse error.
C23_FirstBalancedObject ==
    ClientCall =>
        /\ (HasSpan(call.net.text) /\ WellFormed(FirstBalanced(call.net.text))) =>
              /\ call.out.outcome = "return"
              /\ \A f \in RequiredFields :
                    call.out.value[f] = ValueOf(FirstBalanced(call.net.text), f)
        /\ ~HasSpan(call.net.text) => call.out = Thrown(NoSpanMessage)

\* the last closing brace of a reply
LastClose(text) ==
    CHOOSE i \in 1..Len(text) :
        text[i] = RBrace /\ \A j \in (i + 1)..Len(text) : text[j] # RBrace

\* C23 amended: both clients take the span from the first opening brace to
\* the last closing brace of the reply: the client succeeds exactly if that
\* span is a well-formed object with the required fields, so text before
\* the object and text without a closing brace after it do no harm, while a
\* further closing brace after the object makes the client fail with a JSON
\* parse error; without a {...} span it fails with the parse error.
C23_FirstToLastBrace ==
    ClientCall =>
        /\ HasSpan(call.net.text) =>
              LET span == SubSeq(call.net.text, FirstOpen(call.net.text),
                                 LastClose(call.net.text))
              IN /\ call.out.outcome = "return" <=> WellFormed(span)
                 /\ call.out.outcome = "return" =>
                       /\ span = FirstBalanced(call.net.text)
                       /\ \A f \in RequiredFields : call.out.value[f] = ValueOf(span, f)
                 /\ span # FirstBalanced(call.net.text) =>
                       call.out = Thrown("Failed to parse JSON: SyntaxError")
        /\ ~HasSpan(call.net.text) => call.out = Thrown(NoSpanMessage)

\* a reply with text before the object and text without a brace after it,
\* from which generateArticleDraft returned the article
C23_Witness ==
    /\ call.fn = "generateArticleDraft"
    /\ call.net.kind = "resolved"
    /\ Len(call.net.text) = 6
    /\ call.net.text[1] = Prose("Sure!")
    /\ call.net.text[6] = Prose("Hope this helps.")
    /\ call.out.outcome = "return"
    /\ call.out.value.title = <<"A", "a">>

\* C24: when generateArticleDraft succeeds the slug it returns is not empty:
\* it is the slug of the reply if that is not empty, and else the slug
\* derived from the title (lower case, runs of other characters as one
\* hyphen, no hyphen at the start or the end, at most 100 characters),
\* which is not empty for any non-empty title.
C24_SlugNeverEmpty ==
    (call.fn = "generateArticleDraft" /\ call.out.outcome = "return") =>
        LET span == MatchObject(call.net.text)
        IN /\ call.out.value.slug # <<>>
           /\ ValueOf(span, "slug") # <<>> => call.out.value.slug = ValueOf(span, "slug")
           /\ Len(call.out.value.slug) <= 100
           /\ call.out.value.slug[1] # "-"
           /\ call.out.value.slug[Len(call.out.value.slug)] # "-"

\* the lines of article.csv
FileLines == {Split(file, NL)[k] : k \in 1..Len(Split(file, NL))}

\* the file holds the line of an appended article, posted or not
Present(article) ==
    \/ AppendLine(article) \in FileLines
    \/ AppendLine([article EXCEPT !.api_posted = TRUE]) \in FileLines

\* the appends that have written their line
Appended == {e \in 1..Len(history) : history[e].op = "append" /\ history[e].step = "write"}

\* the read that belongs to the rewrite at position w of the history
ReadOf(w) ==
    CHOOSE r \in 1..(w - 1) :
        /\ history[r].proc = history[w].proc
        /\ history[r].op = "update"
        /\ history[r].step = "read"
        /\ \A q \in (r + 1)..(w - 1) : history[q].proc # history[w].proc

\* only one process has used the file
SingleWriter == \A e \in 1..Len(history) : history[e].proc = 1

\* C27: a lost write is reachable with two processes that do not coordinate:
\* when an update reads the file before another process appends and
\* rewrites it after, the appended record is gone from the file; with a
\* single sequential writer no appended record is ever lost.
C27_LostWriteOnlyWhenConcurrent ==
    /\ (Len(history) >= 1 /\ history[Len(history)].op = "update"
          /\ history[Len(history)].step = "write") =>
          \A e \in Appended :
              (ReadOf(Len(history)) < e /\ history[e].proc # history[Len(history)].proc)
                  => ~Present(history[e].article)
    /\ SingleWriter => \A e \in Appended : Present(history[e].article)

\* the runs of the publish driver so far, the running one last: the store
\* each started from and what it did
Runs == run.earlier \o <<[file0 |-> run.file0, dlog |-> dlog]>>

\* the position in the store of the item with loop index i of a run
PositionIn(r, i) ==
    LET stored == readArticlesFromCSV(Runs[r].file0)
        open == {j \in 1..Len(stored) : ~stored[j].api_posted}
    IN CHOOSE j \in open : Cardinality({q \in open : q <= j}) = i + 1

\* the positions publish was called for in a run, and those it returned
\* success for
PublishedIn(r) ==
    {PositionIn(r, Runs[r].dlog[e].i) :
        e \in {k \in 1..Len(Runs[r].dlog) : Runs[r].dlog[k].tag = "publish"}}

SucceededIn(r) ==
    {PositionIn(r, Runs[r].dlog[e].i) :
        e \in {k \in 1..Len(Runs[r].dlog) :
                  Runs[r].dlog[k].tag = "publish" /\ Runs[r].dlog[k].what = "success"}}

\* C29: over successive runs of the publish driver on the same store, with
\* no other writer, a record for which publish returned success in one run
\* is never passed to publish again in a later run.
C29_PublishedOnceAcrossRuns ==
    run.mode = "publish" =>
        \A r1, r2 \in 1..Len(Runs) :
            r1 < r2 => SucceededIn(r1) \cap PublishedIn(r2) = {}

====
